---- MODULE Spec2Model ----
(***************************************************************************)
(* Model of the zenvark distributed circuit breaker: several CircuitBreaker*)
(* instances sharing one circuit id, coordinated through two Redis streams *)
(* (call-result log, state log) and one Redis mutex (leader key).          *)
(*                                                                         *)
(* One action is one event-loop task of one instance (a timer, a network   *)
(* reply, a public call) together with the promise continuations it runs   *)
(* synchronously, or one command executed by the Redis server.             *)
(***************************************************************************)
EXTENDS Integers, Sequences, FiniteSets, TLC

(* ---------------------------- bounds ---------------------------------- *)
\* one breaker under role churn and restarts (Spec)
MaxTime == 2
MaxCalls == 2
MaxStateWrites == 2
MaxAttempt == 1
\* one breaker with stable leadership, as in the recovery scenario (ScenarioSpec)
ScenarioTime == 3
ScenarioCalls == 4
ScenarioStateWrites == 3
ScenarioAttempt == 2
\* two breakers sharing one circuit id (ClusterSpec, PropagationSpec)
ClusterCalls == 0
ClusterStateWrites == 2
ClusterAttempt == 1

\* two electors handing leadership over (HandoverSpec)
HandoverStateWrites == 1
HandoverAttempt == 1

\* one breaker whose Redis commands can fail (FaultSpec)
FaultTime == 2
FaultCalls == 2
FaultStateWrites == 1
FaultAttempt == 1

\* calls made to one lifecycle manager (LifecycleSpec)
MaxLifecycleCalls == 4

\* one breaker that is stopped and started again while its own writes go on
\* (RestartSpec)
RestartStateWrites == 3
RestartAttempt == 1

\* one breaker that stays leader, with its Idle loop's delays measured against
\* the clock (IdleSpec): clock, calls, state writes, attempts of a loop, and the
\* idle interval in clock units
IdleTime == 4
IdleCalls == 2
IdleStateWrites == 1
IdleAttempt == 2
IdleInterval == 2

\* one RedisStreamReader on its own (ReaderSpec): clock, calls made to it,
\* entries appended to its stream, read errors of one loop
ReaderTime == 3
ReaderCalls == 3
ReaderEntries == 2
ReaderErrors == 1

\* two call-result stores on one stream, started and stopped while calls are
\* recorded (StoreSpec): calls recorded, more than maxLen
StoreCalls == 4

\* one HealthCheckManager on its own (SchedulerSpec): clock, calls made to it,
\* attempts a loop makes
SchedulerTime == 4
SchedulerCalls == 3
SchedulerAttempt == 2

(* ------------------------- program constants --------------------------- *)
Inst == {"a", "b"}
Solo == {"a"}
CircuitId == "id"
None == "none"

LEADER == "leader"
FOLLOWER == "follower"
CLOSED == "closed"
OPEN == "open"
SUCCESS == "success"
FAILURE == "failure"
RECOVERY == "recovery"
IDLE == "idle"

INACTIVE == "inactive"
OPERATIONAL == "operational"
STARTING == "starting"
STOPPING == "stopping"
UNRECOVERABLE == "unrecoverable"

\* start configurations: two values that are not deeply equal
Configs == {[data |-> "test"], [data |-> "other"]}

maxLen == 3
threshold == 2
IdleProbeInterval == 30
\* RedisStreamReader: pause after a failed read, in clock units
ERROR_RETRY_DELAY_MS == 1

VARIABLES
    now,                  \* Date.now(), shared wall clock
    callLog,              \* Redis stream zenvark:<id>:call-result
    stateLog,             \* Redis stream zenvark:<id>:state
    stateWrites,          \* per instance, setState() calls whose XADD is in flight
    lockHolder,           \* Redis mutex key zenvark:<id>:leader
    idleProbeIntervalMs,  \* health.idleProbeIntervalMs (0 = not configured)
    managerState,         \* CircuitBreaker lifecycle state, per instance
    currentRole,          \* LeaderElector.currentRole
    isAcquired,           \* Mutex.isAcquired of the instance's mutex object
    currentState,         \* CircuitStateStore.currentState
    events,               \* CallResultStore.events
    healthCheckLoop,      \* HealthCheckManager: lifecycle state and loop
    fnRunning,            \* guarded calls (fn) in flight inside execute
    lifecycle,            \* a lifecycle manager on its own (TestLifecycleManager,
                          \* or the one a HealthCheckManager on its own extends)
    healthCheckManager,   \* a HealthCheckManager on its own: healthCheckLoop
                          \* and the loops startInternal has created
    reader,               \* a RedisStreamReader on its own: readerLoop, the
                          \* loops startInternal has created, the stream it
                          \* reads and the last id its owner has seen
    notifiedState,        \* per instance, the state its latest onStateChange
                          \* carried (None: not invoked yet); recorded in
                          \* the behaviours for which limits.history is set
    limits,               \* how far a behaviour is explored: fixed by Init
    emitted               \* what the latest step handed to the caller and to
                          \* the caller-supplied collaborators (metrics sink,
                          \* strategy, callbacks): return values and calls

vars == <<now, callLog, stateLog, stateWrites, lockHolder, idleProbeIntervalMs,
          managerState, currentRole, isAcquired, currentState, events,
          healthCheckLoop, fnRunning, lifecycle, healthCheckManager,
          reader, notifiedState, limits, emitted>>

(* ------------------------- pure helpers -------------------------------- *)
Last(s) == s[Len(s)]

RECURSIVE SumOver(_, _)
SumOver(f, S) ==
    IF S = {} THEN 0
    ELSE LET x == CHOOSE y \in S : TRUE IN f[x] + SumOver(f, S \ {x})

\* CircuitStateStore.currentState initial value
InitialStateEvent == [id |-> 0, state |-> CLOSED, timestamp |-> 0]

\* faulty variant: mapEntryToStateEvent that loses the timestamp field
mapEntryToStateEventNoTimestamp(id, fields) ==
    [id |-> id, state |-> fields.state, timestamp |-> 0]

\* CircuitStateStore.mapEntryToStateEvent: entry = <<id, fields>>
mapEntryToStateEvent(id, fields) ==
    [id |-> id, state |-> fields.state, timestamp |-> fields.timestamp]

\* CallResultStore.mapEntryToCallResultEvent
mapEntryToCallResultEvent(id, fields) ==
    [id |-> id, callResult |-> fields.callResult, timestamp |-> fields.timestamp]

\* XREVRANGE key + - COUNT n, then toReversed(): the n newest entries, oldest first
getInitialEvents(log, n) ==
    LET first == IF Len(log) > n THEN Len(log) - n + 1 ELSE 1
    IN  [k \in 1..(Len(log) - first + 1) |->
            mapEntryToCallResultEvent(first + k - 1, log[first + k - 1])]

\* faulty variant: pushEvents without the splice
pushEventsUntrimmed(window, batch) == window \o batch

\* CallResultStore.pushEvents: append, then splice off the oldest beyond maxLen
pushEvents(window, batch) ==
    LET all == window \o batch
    IN  IF Len(all) > maxLen
        THEN SubSeq(all, Len(all) - maxLen + 1, Len(all))
        ELSE all

\* callResultStore.getEvents().at(-1)?.timestamp, 0 standing for undefined
LastTimestamp(window) == IF Len(window) = 0 THEN 0 ELSE Last(window).timestamp

\* getLastId of the call-result reader: events.at(-1)?.id ?? '0'
\* faulty variant: a cursor taken from the oldest event of the window
CallLastIdOldest(window) == IF Len(window) = 0 THEN 0 ELSE Head(window).id

CallLastId(window) == IF Len(window) = 0 THEN 0 ELSE Last(window).id

\* ConsecutiveBreaker.shouldOpenCircuit
ConsecutiveBreaker(evts) ==
    /\ Len(evts) >= threshold
    /\ \A k \in (Len(evts) - threshold + 1)..Len(evts) : evts[k].callResult = FAILURE

\* faulty variant: handleEventsAdded without the timestamp filter
RecentEventsUnfiltered(evts, lastStateChangeTimestamp) == evts

\* handleEventsAdded: events.filter(e => e.timestamp >= lastStateChangeTimestamp)
RecentEvents(evts, lastStateChangeTimestamp) ==
    SelectSeq(evts, LAMBDA e : e.timestamp >= lastStateChangeTimestamp)

\* CircuitBreaker.shouldOpenCircuit: an empty slice never reaches the strategy.
\* consulted: was breaker.shouldOpenCircuit called; verdict: the value returned
shouldOpenCircuit(evts) ==
    IF Len(evts) = 0
    THEN [consulted |-> FALSE, verdict |-> FALSE]
    ELSE [consulted |-> TRUE, verdict |-> ConsecutiveBreaker(evts)]

(* ---------------------- HealthCheckManager ----------------------------- *)
\* no loop, lifecycle INACTIVE. awaited: CircuitBreaker.stopInternal awaits the
\* stop() in progress
NoLoop ==
    [lifecycleState |-> INACTIVE, type |-> None, attempt |-> 0,
     pos |-> None, aborted |-> FALSE, pending |-> None, awaited |-> FALSE,
     until |-> 0, pendingStartMs |-> 0]

\* start(config) on an INACTIVE manager: startInternal creates the loop, which
\* sets attempt = 1, asks getDelayMs(1) and begins its first sleep.
\* until: the instant the sleep of an Idle loop ends, kept in the behaviours
\* for which limits.timed is set (the sleeps of a Recovery loop, which the
\* backoff decides, can end at any instant)
StartLoop(type) ==
    [lifecycleState |-> OPERATIONAL, type |-> type, attempt |-> 1,
     pos |-> "sleeping", aborted |-> FALSE, pending |-> None,
     awaited |-> FALSE, until |-> 0, pendingStartMs |-> 0]

\* rescheduleIdleHealthChecks: initialExecutionStartMs, from the timestamp of
\* the newest event of the window (0: the window is empty)
initialExecutionStartMs(lastEventTimestamp, idleMs) ==
    IF ~limits.timed \/ lastEventTimestamp = 0 THEN 0
    ELSE lastEventTimestamp + idleMs

\* the Idle loop started with the getDelayMs of rescheduleIdleHealthChecks:
\* its first sleep lasts Math.max(0, initialExecutionStartMs - Date.now())
StartIdleLoop(startMs) ==
    [StartLoop(IDLE) EXCEPT
        !.until = IF ~limits.timed THEN 0
                  ELSE IF startMs > now THEN startMs ELSE now]

\* start(options) of the scheduler: startMs matters to an Idle loop only
StartLoopAt(type, startMs) ==
    IF type = IDLE THEN StartIdleLoop(startMs) ELSE StartLoop(type)

\* HealthCheckManager.stop(): AbstractLifecycleManager.stop + stopInternal.
\* A sleeping loop ends within the same task (the aborted delay resolves);
\* a loop awaiting runCheck keeps the manager STOPPING until the check settles.
\* stop() during STOPPING only joins the stop in progress.
HcmStop(h) ==
    CASE h.lifecycleState = INACTIVE -> h
      [] h.lifecycleState = STOPPING -> h
      [] h.lifecycleState = OPERATIONAL /\ h.pos = "sleeping" -> NoLoop
      [] OTHER -> [h EXCEPT !.lifecycleState = STOPPING, !.aborted = TRUE]

\* HealthCheckManager.restart(config): stop() until INACTIVE, then start(config).
\* While the stop is pending the restart waits; of several waiting restarts the
\* one that called last starts last and its loop is the one left running.
HcmRestartAt(h, type, startMs) ==
    CASE h.lifecycleState = INACTIVE -> StartLoopAt(type, startMs)
      [] h.lifecycleState = STOPPING ->
            [h EXCEPT !.pending = type, !.pendingStartMs = startMs]
      [] h.lifecycleState = OPERATIONAL /\ h.pos = "sleeping" ->
            StartLoopAt(type, startMs)
      [] OTHER -> [h EXCEPT !.lifecycleState = STOPPING, !.aborted = TRUE,
                            !.pending = type, !.pendingStartMs = startMs]

\* restart with a Recovery configuration
HcmRestart(h, type) == HcmRestartAt(h, type, 0)

\* faulty variant: a runCheck that awaits the stop of the scheduler that is
\* waiting for it
HcmAfterCheckAwaitsStop(h) ==
    IF h.aborted
    THEN h
    ELSE [h EXCEPT !.attempt = h.attempt + 1, !.pos = "sleeping",
                   !.until = IF limits.timed /\ h.type = IDLE
                             THEN now + idleProbeIntervalMs ELSE 0]

\* the loop after runCheck returned: attempt += 1, then the while condition
HcmAfterCheck(h) ==
    IF h.aborted
    THEN IF h.pending = None THEN NoLoop
         ELSE StartLoopAt(h.pending, h.pendingStartMs)
    ELSE [h EXCEPT !.attempt = h.attempt + 1, !.pos = "sleeping",
                   !.until = IF limits.timed /\ h.type = IDLE
                             THEN now + idleProbeIntervalMs ELSE 0]

(* ------------------- CircuitBreaker private methods -------------------- *)
stopHealthChecks(h) == HcmStop(h)

runRecoveryHealthChecks(h, isLeader) ==
    IF ~isLeader THEN h ELSE HcmRestart(h, RECOVERY)

\* lastEventTimestamp: callResultStore.getEvents().at(-1)?.timestamp, 0 when
\* the window is empty
rescheduleIdleHealthChecks(h, isLeader, idleMs, lastEventTimestamp) ==
    IF idleMs = 0 \/ ~isLeader THEN h
    ELSE HcmRestartAt(h, IDLE, initialExecutionStartMs(lastEventTimestamp, idleMs))

\* elector onRoleChange handler in the CircuitBreaker constructor
onRoleChange(h, role, state, idleMs, lastEventTimestamp) ==
    IF role = LEADER
    THEN IF state = OPEN THEN runRecoveryHealthChecks(h, TRUE)
         ELSE IF idleMs # 0
              THEN rescheduleIdleHealthChecks(h, TRUE, idleMs, lastEventTimestamp)
         ELSE h
    ELSE stopHealthChecks(h)

\* a setState(state) call: XADD issued with timestamp Date.now(); `then` is the
\* method the caller runs after awaiting it
NewStateWrite(state, then) ==
    [state |-> state, timestamp |-> now, then |-> then]

\* number of setState calls made so far (appended or still in flight)
StateWritesIssued ==
    Len(stateLog) + SumOver([i \in Inst |-> Len(stateWrites[i])], Inst)

CanWrite == StateWritesIssued < limits.stateWrites

\* what a step emits: op names the collaborator (or "none"), arg what it got
Emit(op, i, arg) == [op |-> op, inst |-> i, arg |-> arg]
Quiet == Emit("none", None, None)

(* -------------------- AbstractLifecycleManager ------------------------- *)
\* the errors a call can fail with: the unrecoverable-state error, the two
\* configuration errors of start, and the error startInternal or stopInternal
\* itself threw
ErrorKinds == {"unrecoverable", "busy", "running", "failed"}

\* the suspended calls that belong to a restart
RestartOps == {"restartStop", "restart", "restartChained"}

\* a manager after construction. waiting: the calls suspended on the
\* startPromise or stopPromise in progress, in the order they began to wait.
\* owner: the kind of call that awaits the startInternal or stopInternal in
\* progress. path: the values assigned to managerState by the latest step.
\* startCalls, stopCalls, restartCalls, configs, lastCall, lastConfig,
\* resolved, rejected, errors record the calls made by the callers and how they
\* completed, restartErrors the kinds of error restart calls failed with
NewManager ==
    [lifecycleState |-> INACTIVE, config |-> None,
     startInternalCalled |-> 0, stopInternalCalled |-> 0, waiting |-> <<>>,
     owner |-> None, path |-> <<>>,
     startCalls |-> 0, stopCalls |-> 0, restartCalls |-> 0,
     configs |-> {}, lastCall |-> None, lastConfig |-> None,
     resolved |-> 0, rejected |-> 0,
     errors |-> [k \in ErrorKinds |-> 0], restartErrors |-> {}]

\* a call fails with an error of the given kind
reject(lm, kind) ==
    [lm EXCEPT !.rejected = @ + 1, !.errors[kind] = @ + 1]

\* faulty variant: the unrecoverable-state error taken for a failure of
\* startInternal or stopInternal
createPlainError(lm) == reject(lm, "failed")

\* a call on an UNRECOVERABLE manager fails with createUnrecoverableError()
createUnrecoverableError(lm) == reject(lm, "unrecoverable")

\* faulty variant: start that runs startInternal again on a running manager
startAgain(lm, config) ==
    CASE lm.lifecycleState = UNRECOVERABLE -> createUnrecoverableError(lm)
      [] lm.lifecycleState = STOPPING ->
            [lm EXCEPT !.waiting = Append(@, [op |-> "start", config |-> config])]
      [] lm.lifecycleState = STARTING ->
            [lm EXCEPT !.waiting = Append(@, [op |-> "join", config |-> None])]
      [] OTHER ->
            [lm EXCEPT !.lifecycleState = STARTING, !.config = config,
                       !.startInternalCalled = @ + 1, !.owner = "start",
                       !.path = Append(@, STARTING)]

\* faulty variant: start that takes the new configuration of a second caller
startReconfigures(lm, config) ==
    CASE lm.lifecycleState = UNRECOVERABLE -> createUnrecoverableError(lm)
      [] lm.lifecycleState = STOPPING ->
            [lm EXCEPT !.waiting = Append(@, [op |-> "start", config |-> config])]
      [] lm.lifecycleState = STARTING ->
            [lm EXCEPT !.config = config,
                       !.waiting = Append(@, [op |-> "join", config |-> None])]
      [] lm.lifecycleState = OPERATIONAL ->
            [lm EXCEPT !.config = config, !.resolved = @ + 1]
      [] lm.lifecycleState = INACTIVE ->
            [lm EXCEPT !.lifecycleState = STARTING, !.config = config,
                       !.startInternalCalled = @ + 1, !.owner = "start",
                       !.path = Append(@, STARTING)]

\* faulty variant: start that does not wait for a stop in progress
startDuringStop(lm, config) ==
    CASE lm.lifecycleState = UNRECOVERABLE -> createUnrecoverableError(lm)
      [] lm.lifecycleState = STARTING ->
            IF config # lm.config
            THEN reject(lm, "busy")
            ELSE [lm EXCEPT !.waiting = Append(@, [op |-> "join", config |-> None])]
      [] lm.lifecycleState = OPERATIONAL ->
            IF config # lm.config
            THEN reject(lm, "running")
            ELSE [lm EXCEPT !.resolved = @ + 1]
      [] OTHER ->
            [lm EXCEPT !.lifecycleState = STARTING, !.config = config,
                       !.startInternalCalled = @ + 1, !.owner = "start",
                       !.path = Append(@, STARTING)]

\* start(config) up to its first await or its return
start(lm, config) ==
    CASE lm.lifecycleState = UNRECOVERABLE -> createUnrecoverableError(lm)
      [] lm.lifecycleState = STOPPING ->
            [lm EXCEPT !.waiting = Append(@, [op |-> "start", config |-> config])]
      [] lm.lifecycleState = STARTING ->
            IF config # lm.config
            THEN reject(lm, "busy")
            ELSE [lm EXCEPT !.waiting = Append(@, [op |-> "join", config |-> None])]
      [] lm.lifecycleState = OPERATIONAL ->
            IF config # lm.config
            THEN reject(lm, "running")
            ELSE [lm EXCEPT !.resolved = @ + 1]
      [] lm.lifecycleState = INACTIVE ->
            [lm EXCEPT !.lifecycleState = STARTING, !.config = config,
                       !.startInternalCalled = @ + 1, !.owner = "start",
                       !.path = Append(@, STARTING)]

\* faulty variant: stop that runs stopInternal whatever the state
stopAlways(lm) ==
    [lm EXCEPT !.lifecycleState = STOPPING, !.config = None,
               !.stopInternalCalled = @ + 1, !.owner = "stop",
               !.path = Append(@, STOPPING)]

\* faulty variant: stop that does not wait for a start in progress
stopAbandonsStart(lm) ==
    CASE lm.lifecycleState = UNRECOVERABLE -> createUnrecoverableError(lm)
      [] lm.lifecycleState = STOPPING ->
            [lm EXCEPT !.waiting = Append(@, [op |-> "join", config |-> None])]
      [] lm.lifecycleState = INACTIVE -> [lm EXCEPT !.resolved = @ + 1]
      [] OTHER ->
            [lm EXCEPT !.lifecycleState = STOPPING, !.config = None,
                       !.stopInternalCalled = @ + 1, !.owner = "stop",
                       !.path = Append(@, STOPPING)]

\* stop() up to its first await or its return
stop(lm) ==
    CASE lm.lifecycleState = UNRECOVERABLE -> createUnrecoverableError(lm)
      [] lm.lifecycleState = STARTING ->
            [lm EXCEPT !.waiting = Append(@, [op |-> "stop", config |-> None])]
      [] lm.lifecycleState = STOPPING ->
            [lm EXCEPT !.waiting = Append(@, [op |-> "join", config |-> None])]
      [] lm.lifecycleState = INACTIVE -> [lm EXCEPT !.resolved = @ + 1]
      [] lm.lifecycleState = OPERATIONAL ->
            [lm EXCEPT !.lifecycleState = STOPPING, !.config = None,
                       !.stopInternalCalled = @ + 1, !.owner = "stop",
                       !.path = Append(@, STOPPING)]

\* restart's call of start(config): the restart completes as that start does
startOfRestart(lm, config) ==
    LET next == start(lm, config)
    IN  [next EXCEPT
            !.owner = IF next.startInternalCalled > lm.startInternalCalled
                      THEN "restart" ELSE @,
            !.restartErrors = @ \cup {k \in ErrorKinds : next.errors[k] > lm.errors[k]}]

\* a restart fails with an error of the given kind
rejectRestart(lm, kind) ==
    [reject(lm, kind) EXCEPT !.restartErrors = @ \cup {kind}]

\* restart's call of stop() up to its first await, the restart awaiting it. as:
\* "restart" for a stop() called on a manager that is not STARTING,
\* "restartChained" for the stop() a call made while STARTING calls in turn once
\* the start has completed, whose result reaches the restart two microtasks
\* later
stopOfRestart(lm, config, as) ==
    CASE lm.lifecycleState = UNRECOVERABLE ->
            [createUnrecoverableError(lm) EXCEPT
                !.restartErrors = @ \cup {"unrecoverable"}]
      [] lm.lifecycleState = STARTING ->
            [lm EXCEPT !.waiting = Append(@, [op |-> "restartStop", config |-> config])]
      [] lm.lifecycleState = STOPPING ->
            [lm EXCEPT !.waiting = Append(@, [op |-> as, config |-> config])]
      [] lm.lifecycleState = OPERATIONAL ->
            [lm EXCEPT !.lifecycleState = STOPPING, !.config = None,
                       !.stopInternalCalled = @ + 1, !.owner = "restart",
                       !.path = Append(@, STOPPING),
                       !.waiting = Append(@, [op |-> as, config |-> config])]

\* faulty variant: restart that starts without stopping first
restartWithoutStop(lm, config) == startOfRestart(lm, config)

\* restart(config) from the test of its loop up to its next await or its
\* return: on an INACTIVE manager it calls start(config) and completes as that
\* start does; otherwise it calls stop() and awaits it, to test the state again
restart(lm, config) ==
    IF lm.lifecycleState = INACTIVE
    THEN startOfRestart(lm, config)
    ELSE stopOfRestart(lm, config, "restart")

\* faulty variant: the suspended calls complete without calling start or stop
\* again
resumeCompletes(lm, ws, ok) ==
    IF ok THEN [lm EXCEPT !.resolved = @ + Len(ws)]
    ELSE [lm EXCEPT !.rejected = @ + Len(ws),
                    !.errors["failed"] = @ + Len(ws)]

\* the suspended calls ws continue, in order, after the promise they awaited
\* settled (ok: it resolved): a joining call completes as the promise did; a
\* start that awaited a stop, and a stop that awaited a start, call start/stop
\* again if the promise resolved and fail with its error otherwise; the stop()
\* of a restart that awaited a start calls stop() again; a restart whose stop()
\* resolved tests the state again, and fails if its stop() failed
RECURSIVE resume(_, _, _)
resume(lm, ws, ok) ==
    IF ws = <<>> THEN lm
    ELSE LET w == Head(ws)
             after ==
                 IF ~ok
                 THEN IF w.op \in RestartOps THEN rejectRestart(lm, "failed")
                      ELSE reject(lm, "failed")
                 ELSE CASE w.op = "join" -> [lm EXCEPT !.resolved = @ + 1]
                        [] w.op = "start" -> start(lm, w.config)
                        [] w.op = "stop" -> stop(lm)
                        [] w.op = "restartStop" ->
                              stopOfRestart(lm, w.config, "restartChained")
                        [] w.op \in {"restart", "restartChained"} ->
                              restart(lm, w.config)
         IN  resume(after, Tail(ws), ok)

\* the order in which the calls suspended on a stop continue: those that await
\* the stopPromise itself, then the restarts that await the promise of their
\* own stop() call, then the restarts whose stop() call returned the promise of
\* a further stop() call
afterStop(ws) ==
    SelectSeq(ws, LAMBDA w : w.op \notin RestartOps)
        \o SelectSeq(ws, LAMBDA w : w.op = "restart")
        \o SelectSeq(ws, LAMBDA w : w.op = "restartChained")

\* the startPromise settles: the call that ran startInternal makes the manager
\* OPERATIONAL, or UNRECOVERABLE and fails; then the suspended calls continue
afterStartInternal(lm, ok) ==
    resume(IF ok
           THEN [lm EXCEPT !.lifecycleState = OPERATIONAL,
                           !.path = <<OPERATIONAL>>, !.owner = None,
                           !.waiting = <<>>, !.resolved = @ + 1]
           ELSE (IF lm.owner = "restart"
                 THEN rejectRestart([lm EXCEPT
                          !.lifecycleState = UNRECOVERABLE,
                          !.path = <<UNRECOVERABLE>>, !.owner = None,
                          !.config = None, !.waiting = <<>>], "failed")
                 ELSE reject([lm EXCEPT
                          !.lifecycleState = UNRECOVERABLE,
                          !.path = <<UNRECOVERABLE>>, !.owner = None,
                          !.config = None, !.waiting = <<>>], "failed")),
           lm.waiting, ok)

\* the stopPromise settles: the stop() that ran stopInternal makes the manager
\* INACTIVE, or UNRECOVERABLE and fails; then the suspended calls continue. A
\* stop() made by restart is not a call of its own: the restart that made it is
\* among the suspended calls
afterStopInternal(lm, ok) ==
    LET settled ==
            IF ok
            THEN [lm EXCEPT !.lifecycleState = INACTIVE, !.path = <<INACTIVE>>,
                            !.owner = None, !.waiting = <<>>]
            ELSE [lm EXCEPT !.lifecycleState = UNRECOVERABLE,
                            !.path = <<UNRECOVERABLE>>,
                            !.owner = None, !.waiting = <<>>]
        completed ==
            IF lm.owner = "restart" THEN settled
            ELSE IF ok THEN [settled EXCEPT !.resolved = @ + 1]
            ELSE reject(settled, "failed")
    IN  resume(completed, afterStop(lm.waiting), ok)

(* --------------- HealthCheckManager: its loops, one by one --------------- *)
\* the start options given to the manager: getDelayMs[k] is getDelayMs(k)
SchedulerOptions ==
    {[type |-> RECOVERY, getDelayMs |-> <<1, 2, 2>>],
     [type |-> IDLE, getDelayMs |-> <<0, 0, 0>>]}

\* a manager after construction: healthCheckLoop is null (0), no loop exists
NewHealthCheckManager == [healthCheckLoop |-> 0, loops |-> <<>>]

\* faulty variant: a loop whose first probe is not delayed
startHealthCheckLoopNoDelay(options) ==
    [type |-> options.type, getDelayMs |-> options.getDelayMs, attempt |-> 1,
     pos |-> "delay", aborted |-> FALSE, since |-> now, until |-> now,
     checks |-> 0, asked |-> <<1>>]

\* startHealthCheckLoop up to its first await: attempt = 1, the signal is not
\* aborted, the loop sleeps from now until getDelayMs(1) later. checks counts
\* the runCheck invocations of the loop, asked lists the arguments getDelayMs
\* was called with
startHealthCheckLoop(options) ==
    [type |-> options.type, getDelayMs |-> options.getDelayMs, attempt |-> 1,
     pos |-> "delay", aborted |-> FALSE, since |-> now,
     until |-> now + options.getDelayMs[1], checks |-> 0, asked |-> <<1>>]

\* HealthCheckManager.startInternal(options)
hcmStartInternal(hm, options) ==
    [healthCheckLoop |-> Len(hm.loops) + 1,
     loops |-> Append(hm.loops, startHealthCheckLoop(options))]

\* HealthCheckManager.stopInternal up to its await: abortController.abort()
hcmStopInternal(hm) ==
    IF hm.healthCheckLoop = 0 THEN hm
    ELSE [hm EXCEPT !.loops[hm.healthCheckLoop].aborted = TRUE]

\* faulty variant: stopInternal that does not await the loop
LoopPromiseIgnored(hm) == TRUE

\* stopInternal's `await this.healthCheckLoop.promise` can continue
LoopPromiseSettled(hm) ==
    hm.healthCheckLoop = 0 \/ hm.loops[hm.healthCheckLoop].pos = "returned"

\* the manager after the step that took its lifecycle from lm to next: a call
\* of startInternal or of stopInternal made in the step has acted
internals(lm, next, hm) ==
    IF next.startInternalCalled > lm.startInternalCalled
    THEN hcmStartInternal(hm, next.config)
    ELSE IF next.stopInternalCalled > lm.stopInternalCalled
    THEN hcmStopInternal(hm)
    ELSE hm

\* faulty variant: a loop that never increments attempt
afterRunCheckSameAttempt(loop) ==
    IF loop.aborted
    THEN [loop EXCEPT !.pos = "returned"]
    ELSE [loop EXCEPT !.pos = "delay", !.since = now,
                      !.until = now + loop.getDelayMs[loop.attempt],
                      !.asked = Append(@, loop.attempt)]

\* the loop after `await this.runCheck(...)`: attempt += 1, then the test of
\* the while loop, getDelayMs(attempt) and the next sleep
afterRunCheck(loop) ==
    IF loop.aborted
    THEN [loop EXCEPT !.attempt = @ + 1, !.pos = "returned"]
    ELSE [loop EXCEPT !.attempt = @ + 1, !.pos = "delay", !.since = now,
                      !.until = now + loop.getDelayMs[loop.attempt + 1],
                      !.asked = Append(@, loop.attempt + 1)]

(* -------------------------- RedisStreamReader -------------------------- *)
\* a reader after construction: readerLoop is null (0), no loop exists, the
\* stream is empty and getLastId() returns '0'
NewReader == [readerLoop |-> 0, loops |-> <<>>, stream |-> 0, lastId |-> 0]

\* listenLoop up to its first await: the signal is not aborted, XREAD BLOCK is
\* sent with the id getLastId() returns. errors counts the reads that failed
listenLoop(rd) ==
    [pos |-> "xread", aborted |-> FALSE, from |-> rd.lastId, until |-> 0,
     errors |-> 0]

\* RedisStreamReader.startInternal
readerStartInternal(rd) ==
    IF rd.readerLoop # 0 THEN rd
    ELSE [rd EXCEPT !.readerLoop = Len(rd.loops) + 1,
                    !.loops = Append(rd.loops, listenLoop(rd))]

\* RedisStreamReader.stopInternal up to its await: abort() and disconnect()
readerStopInternal(rd) ==
    IF rd.readerLoop = 0 THEN rd
    ELSE [rd EXCEPT !.loops[rd.readerLoop].aborted = TRUE]

\* stopInternal's `await this.readerLoop.promise` can continue
ReaderPromiseSettled(rd) ==
    rd.readerLoop = 0 \/ rd.loops[rd.readerLoop].pos = "returned"

\* the reader after the step that took its lifecycle from lm to next
readerInternals(lm, next, rd) ==
    IF next.startInternalCalled > lm.startInternalCalled
    THEN readerStartInternal(rd)
    ELSE IF next.stopInternalCalled > lm.stopInternalCalled
    THEN readerStopInternal(rd)
    ELSE rd

\* listenLoop at the test of its while loop: return, or the next XREAD with
\* the id getLastId() returns now
whileNotAborted(loop, lastId) ==
    IF loop.aborted
    THEN [loop EXCEPT !.pos = "returned"]
    ELSE [loop EXCEPT !.pos = "xread", !.from = lastId]

\* faulty variant: a catch branch that ends the loop on every error
catchEndsLoop(loop) ==
    [loop EXCEPT !.pos = "returned", !.errors = @ + 1]

\* listenLoop's catch branch: break when the signal is aborted, else onError
\* and the pause before the next read
catch(loop) ==
    IF loop.aborted
    THEN [loop EXCEPT !.pos = "returned", !.errors = @ + 1]
    ELSE [loop EXCEPT !.pos = "delay", !.errors = @ + 1,
                      !.until = now + ERROR_RETRY_DELAY_MS]

(* ------------------------------ Init ----------------------------------- *)
\* the state after construction of every instance, for given exploration
\* limits and given choices of health.idleProbeIntervalMs
InitWith(l, idleChoices) ==
    /\ limits = l
    /\ now = 1
    /\ callLog = <<>>
    /\ stateLog = <<>>
    /\ stateWrites = [i \in Inst |-> <<>>]
    /\ lockHolder = None
    /\ idleProbeIntervalMs \in idleChoices
    /\ managerState = [i \in Inst |-> INACTIVE]
    /\ currentRole = [i \in Inst |-> FOLLOWER]
    /\ isAcquired = [i \in Inst |-> FALSE]
    /\ currentState = [i \in Inst |-> InitialStateEvent]
    /\ events = [i \in Inst |-> <<>>]
    /\ healthCheckLoop = [i \in Inst |-> NoLoop]
    /\ fnRunning = [i \in Inst |-> 0]
    /\ lifecycle = NewManager
    /\ healthCheckManager = NewHealthCheckManager
    /\ reader = NewReader
    /\ notifiedState = [i \in Inst |-> None]
    /\ emitted = Quiet

Init ==
    InitWith([time |-> MaxTime, calls |-> MaxCalls,
              stateWrites |-> MaxStateWrites, attempts |-> MaxAttempt,
              history |-> FALSE, timed |-> FALSE],
             {0, IdleProbeInterval})

(* ----------------------------- actions --------------------------------- *)
\* the wall clock advances
Tick ==
    /\ now < limits.time
    /\ now' = now + 1
    /\ emitted' = Quiet
    /\ UNCHANGED <<reader, notifiedState, healthCheckManager, lifecycle, limits, callLog, stateLog, stateWrites, lockHolder, idleProbeIntervalMs,
                   managerState, currentRole, isAcquired, currentState, events,
                   healthCheckLoop, fnRunning>>

\* CallResultStore.startInternal after the load: onEventsAdded(this.events)
\* when the loaded window is not empty
startInternalNotifies(i, window) ==
    IF Len(window) > 0 THEN Emit("onEventsAdded", i, window) ELSE Quiet

\* CircuitBreaker.start(): both stores load from their logs and start tailing,
\* then the elector starts its acquire loop. The call-result store hands the
\* loaded window to handleEventsAdded, which returns at once: the elector has
\* not started, so the role is FOLLOWER
Start(i) ==
    /\ managerState[i] = INACTIVE
    /\ healthCheckLoop[i].lifecycleState = INACTIVE
    /\ managerState' = [managerState EXCEPT ![i] = OPERATIONAL]
    /\ currentState' = [currentState EXCEPT ![i] =
            IF Len(stateLog) > 0
            THEN mapEntryToStateEvent(Len(stateLog), Last(stateLog))
            ELSE @]
    /\ events' = [events EXCEPT ![i] = getInitialEvents(callLog, maxLen)]
    /\ emitted' = startInternalNotifies(i, getInitialEvents(callLog, maxLen))
    /\ UNCHANGED <<reader, notifiedState, healthCheckManager, lifecycle, limits, now, callLog, stateLog, stateWrites, lockHolder,
                   idleProbeIntervalMs, currentRole, isAcquired, healthCheckLoop,
                   fnRunning>>

\* faulty variant: execute that never looks at the cached state
IsBlockedNever(state) == FALSE

\* execute(fn): the circuit is open for this instance
IsBlocked(state) == state = OPEN

\* CircuitBreaker.execute(fn), up to its first await
Execute(i) ==
    /\ IF IsBlocked(currentState[i].state)
       THEN /\ emitted' = Emit("execute", i,
                    [fn |-> FALSE, recordBlockedRequest |-> 1,
                     result |-> <<"CircuitOpenError", CircuitId>>])
            /\ UNCHANGED fnRunning
       ELSE /\ Len(callLog) + SumOver(fnRunning, Inst) < limits.calls
            /\ fnRunning' = [fnRunning EXCEPT ![i] = @ + 1]
            /\ emitted' = Emit("execute", i,
                    [fn |-> TRUE, recordBlockedRequest |-> 0,
                     result |-> "pending"])
    /\ UNCHANGED <<reader, notifiedState, healthCheckManager, lifecycle, limits, now, callLog, stateLog, stateWrites, lockHolder,
                   idleProbeIntervalMs, managerState, currentRole, isAcquired,
                   currentState, events, healthCheckLoop>>

\* faulty variant: storeCallResult that drops successes
storeCallResultFailuresOnly(log, callResult) ==
    IF callResult = FAILURE
    THEN Append(log, [callResult |-> callResult, timestamp |-> now])
    ELSE log

\* CallResultStore.storeCallResult: XADD callResult, timestamp = Date.now()
storeCallResult(log, callResult) ==
    Append(log, [callResult |-> callResult, timestamp |-> now])

\* fn() settles: recordCallResult appends the outcome, execute returns or rethrows
FnSettled(i, callResult) ==
    /\ fnRunning[i] > 0
    /\ fnRunning' = [fnRunning EXCEPT ![i] = @ - 1]
    /\ callLog' = storeCallResult(callLog, callResult)
    /\ emitted' = Emit("settled", i, [recordCall |-> callResult,
                                       result |-> callResult])
    /\ UNCHANGED <<reader, notifiedState, healthCheckManager, lifecycle, limits, now, stateLog, stateWrites, lockHolder, idleProbeIntervalMs,
                   managerState, currentRole, isAcquired, currentState, events,
                   healthCheckLoop>>

\* LeaderElector.setRole followed by the orchestrator's onRoleChange handler:
\* the scheduler record after setRole(role) on instance i
SetRoleLoop(i, role) ==
    IF currentRole[i] = role
    THEN healthCheckLoop[i]
    ELSE onRoleChange(healthCheckLoop[i], role, currentState[i].state,
                      idleProbeIntervalMs, LastTimestamp(events[i]))

\* faulty variant: setRole that reports FOLLOWER whenever it is given FOLLOWER
SetRoleEmitsFollower(i, role) ==
    IF currentRole[i] = role /\ role = LEADER THEN Quiet
    ELSE Emit("onRoleChange", i, role)

\* faulty variant: setRole that invokes the callback on every call
SetRoleEmitsAlways(i, role) == Emit("onRoleChange", i, role)

\* LeaderElector.setRole: the role-change callback fires on a change only
SetRoleEmits(i, role) ==
    IF currentRole[i] = role THEN Quiet ELSE Emit("onRoleChange", i, role)

\* faulty variant: handleEventsAdded without the test of the cached state
EvaluatesWhileOpen(i) == currentRole[i] = LEADER

\* handleEventsAdded(window) on instance i: the early return is not taken
Evaluates(i) ==
    /\ currentRole[i] = LEADER
    /\ currentState[i].state # OPEN

\* handleEventsAdded(window) on instance i: does it write an OPEN transition
OpensCircuit(i, window) ==
    /\ Evaluates(i)
    /\ shouldOpenCircuit(RecentEvents(window, currentState[i].timestamp)).verdict

\* the call-result reader delivers entries lastId+1..m: pushEvents, then
\* onEventsAdded -> handleEventsAdded up to its first await
TailCalls(i, m) ==
    LET lastId == CallLastId(events[i])
        batch == [k \in 1..(m - lastId) |->
                     mapEntryToCallResultEvent(lastId + k, callLog[lastId + k])]
        window == pushEvents(events[i], batch)
        lastStateChangeTimestamp == currentState[i].timestamp
        recentEvents == RecentEvents(window, lastStateChangeTimestamp)
    IN  /\ managerState[i] = OPERATIONAL
        /\ m \in (lastId + 1)..Len(callLog)
        /\ events' = [events EXCEPT ![i] = window]
        /\ emitted' =
              IF Evaluates(i) /\ shouldOpenCircuit(recentEvents).consulted
              THEN Emit("shouldOpenCircuit", i,
                        [events |-> recentEvents,
                         since |-> lastStateChangeTimestamp,
                         verdict |-> shouldOpenCircuit(recentEvents).verdict])
              ELSE Quiet
        /\ IF OpensCircuit(i, window)
           THEN /\ CanWrite
                /\ stateWrites' = [stateWrites EXCEPT ![i] =
                      Append(@, NewStateWrite(OPEN, RECOVERY))]
                /\ UNCHANGED healthCheckLoop
           ELSE /\ UNCHANGED stateWrites
                /\ healthCheckLoop' = [healthCheckLoop EXCEPT ![i] =
                      IF Evaluates(i) /\ idleProbeIntervalMs # 0
                      THEN rescheduleIdleHealthChecks(@, TRUE, idleProbeIntervalMs,
                                                      LastTimestamp(window))
                      ELSE @]
        /\ UNCHANGED <<reader, notifiedState, healthCheckManager, lifecycle, limits, now, callLog, stateLog, lockHolder, idleProbeIntervalMs,
                       managerState, currentRole, isAcquired, currentState,
                       fnRunning>>

\* faulty variant: onEntries that caches the first entry of the batch
StateOnEntriesFirst(lastId, m) ==
    mapEntryToStateEvent(m, stateLog[lastId + 1])

\* CircuitStateStore onEntries: the last entry of the batch becomes the cache
StateOnEntries(lastId, m) == mapEntryToStateEvent(m, stateLog[m])

\* faulty variant: onEntries that fires the callback for every batch
FiresStateChangeAlways(prev, next) == TRUE

\* CircuitStateStore onEntries: the callback fires when the state value changed
FiresStateChange(prev, next) == prev # next

\* the state reader delivers entries lastId+1..m
TailState(i, m) ==
    LET prev == currentState[i].state
        entry == StateOnEntries(currentState[i].id, m)
    IN  /\ managerState[i] = OPERATIONAL
        /\ m \in (currentState[i].id + 1)..Len(stateLog)
        /\ currentState' = [currentState EXCEPT ![i] = entry]
        /\ emitted' = IF FiresStateChange(prev, entry.state)
                      THEN Emit("onStateChange", i, entry.state)
                      ELSE Quiet
        /\ notifiedState' = IF limits.history /\ FiresStateChange(prev, entry.state)
                            THEN [notifiedState EXCEPT ![i] = entry.state]
                            ELSE notifiedState
        /\ UNCHANGED <<reader, healthCheckManager, lifecycle, limits, now, callLog, stateLog, stateWrites, lockHolder,
                       idleProbeIntervalMs, managerState, currentRole, isAcquired,
                       events, healthCheckLoop, fnRunning>>

\* the loop's delay elapsed without abort: runCheck -> health.check is invoked
CheckBegin(i) ==
    /\ healthCheckLoop[i].lifecycleState = OPERATIONAL
    /\ healthCheckLoop[i].pos = "sleeping"
    /\ healthCheckLoop[i].attempt <= limits.attempts
    /\ now >= healthCheckLoop[i].until
    /\ healthCheckLoop' = [healthCheckLoop EXCEPT ![i].pos = "checking"]
    /\ emitted' = Emit("check", i, healthCheckLoop[i].type)
    /\ UNCHANGED <<reader, notifiedState, healthCheckManager, lifecycle, limits, now, callLog, stateLog, stateWrites, lockHolder,
                   idleProbeIntervalMs, managerState, currentRole, isAcquired,
                   currentState, events, fnRunning>>

\* faulty variant: onHealthCheckSuccess without the isLeader check
SuccessWritesUnguarded(isLeader, type) == type = RECOVERY

\* onHealthCheckSuccess(type): does it write a CLOSED transition
SuccessWrites(isLeader, type) == isLeader /\ type = RECOVERY

\* faulty variant: onHealthCheckFailure without the test of the probe's kind
FailureWritesAnyType(isLeader, type, aborted) == ~aborted /\ isLeader

\* faulty variant: onHealthCheckFailure that never writes
FailureWritesNever(isLeader, type, aborted) == FALSE

\* runCheck catch branch + onHealthCheckFailure(type): does it write OPEN
FailureWrites(isLeader, type, aborted) == ~aborted /\ isLeader /\ type = IDLE

\* faulty variant: runCheck whose catch branch does not look at the signal
runCheckReportsAborted(i, type, ok, aborted) ==
    Emit("healthCheck", i,
         [type |-> type,
          recordHealthCheck |-> IF ok THEN SUCCESS ELSE FAILURE,
          handleError |-> ~ok])

\* runCheck of the orchestrator after health.check settled: what it hands to
\* the metrics sink (recordHealthCheck) and to handleError. A check that
\* throws after its signal was aborted is dropped by the catch branch
runCheckReports(i, type, ok, aborted) ==
    IF ~ok /\ aborted
    THEN Quiet
    ELSE Emit("healthCheck", i,
              [type |-> type,
               recordHealthCheck |-> IF ok THEN SUCCESS ELSE FAILURE,
               handleError |-> ~ok])

\* health.check settles: runCheck reports the outcome, then the loop continues
CheckSettled(i, ok) ==
    LET h == healthCheckLoop[i]
        isLeader == currentRole[i] = LEADER
        writes == IF ok THEN SuccessWrites(isLeader, h.type)
                  ELSE FailureWrites(isLeader, h.type, h.aborted)
    IN  /\ h.pos = "checking"
        /\ IF writes
           THEN /\ CanWrite
                /\ stateWrites' = [stateWrites EXCEPT ![i] = Append(@,
                      IF ok THEN NewStateWrite(CLOSED, IDLE)
                            ELSE NewStateWrite(OPEN, RECOVERY))]
           ELSE UNCHANGED stateWrites
        /\ healthCheckLoop' = [healthCheckLoop EXCEPT ![i] = HcmAfterCheck(h)]
        /\ emitted' = runCheckReports(i, h.type, ok, h.aborted)
        /\ UNCHANGED <<reader, notifiedState, healthCheckManager, lifecycle, limits, now, callLog, stateLog, lockHolder, idleProbeIntervalMs,
                       managerState, currentRole, isAcquired, currentState, events,
                       fnRunning>>

\* the XADD of a setState call completes; the awaiting method continues with
\* runRecoveryHealthChecks (after OPEN) or rescheduleIdleHealthChecks (after CLOSED)
StateWriteDone(i) ==
    LET w == Head(stateWrites[i])
        isLeader == currentRole[i] = LEADER
    IN  /\ Len(stateWrites[i]) > 0
        /\ stateWrites' = [stateWrites EXCEPT ![i] = Tail(@)]
        /\ stateLog' = Append(stateLog, [state |-> w.state, timestamp |-> w.timestamp])
        /\ healthCheckLoop' = [healthCheckLoop EXCEPT ![i] =
              IF w.then = RECOVERY
              THEN runRecoveryHealthChecks(@, isLeader)
              ELSE rescheduleIdleHealthChecks(@, isLeader, idleProbeIntervalMs,
                                              LastTimestamp(events[i]))]
        /\ emitted' = Quiet
        /\ UNCHANGED <<reader, notifiedState, healthCheckManager, lifecycle, limits, now, callLog, lockHolder, idleProbeIntervalMs, managerState,
                       currentRole, isAcquired, currentState, events, fnRunning>>

\* attemptAcquireLeadership: tryAcquire succeeds because the key is free
AttemptAcquire(i) ==
    /\ managerState[i] = OPERATIONAL
    /\ ~isAcquired[i]
    /\ lockHolder = None
    /\ lockHolder' = i
    /\ isAcquired' = [isAcquired EXCEPT ![i] = TRUE]
    /\ healthCheckLoop' = [healthCheckLoop EXCEPT ![i] = SetRoleLoop(i, LEADER)]
    /\ emitted' = SetRoleEmits(i, LEADER)
    /\ currentRole' = [currentRole EXCEPT ![i] = LEADER]
    /\ UNCHANGED <<reader, notifiedState, healthCheckManager, lifecycle, limits, now, callLog, stateLog, stateWrites, idleProbeIntervalMs,
                   managerState, currentState, events, fnRunning>>

\* faulty variant: an onLockLost callback that leaves the role as it is
LockLostKeepsRole(i) ==
    /\ managerState[i] = OPERATIONAL
    /\ isAcquired[i]
    /\ lockHolder' = IF lockHolder = i THEN None ELSE lockHolder
    /\ isAcquired' = [isAcquired EXCEPT ![i] = FALSE]
    /\ emitted' = Quiet
    /\ UNCHANGED <<reader, notifiedState, healthCheckManager, lifecycle, limits, now, callLog, stateLog, stateWrites, idleProbeIntervalMs,
                   managerState, currentRole, currentState, events, healthCheckLoop, fnRunning>>

\* the mutex reports lock lost: onLockLost -> setRole(FOLLOWER)
LockLost(i) ==
    /\ managerState[i] = OPERATIONAL
    /\ isAcquired[i]
    /\ lockHolder' = IF lockHolder = i THEN None ELSE lockHolder
    /\ isAcquired' = [isAcquired EXCEPT ![i] = FALSE]
    /\ healthCheckLoop' = [healthCheckLoop EXCEPT ![i] = SetRoleLoop(i, FOLLOWER)]
    /\ emitted' = SetRoleEmits(i, FOLLOWER)
    /\ currentRole' = [currentRole EXCEPT ![i] = FOLLOWER]
    /\ UNCHANGED <<reader, notifiedState, healthCheckManager, lifecycle, limits, now, callLog, stateLog, stateWrites, idleProbeIntervalMs,
                   managerState, currentState, events, fnRunning>>

\* the scheduler after the stopHealthChecks() that stopInternal awaits
awaitStopHealthChecks(h) ==
    [stopHealthChecks(h) EXCEPT
        !.awaited = stopHealthChecks(h).lifecycleState = STOPPING]

\* CircuitBreaker.stop(): stopInternal calls stop() on both stores, the elector
\* and the scheduler; the readers end, the elector's loop ends and it calls
\* mutex.release()
Stop(i) ==
    /\ managerState[i] = OPERATIONAL
    /\ managerState' = [managerState EXCEPT ![i] = STOPPING]
    /\ events' = [events EXCEPT ![i] = <<>>]
    /\ healthCheckLoop' = [healthCheckLoop EXCEPT ![i] = awaitStopHealthChecks(@)]
    /\ emitted' = Quiet
    /\ UNCHANGED <<reader, notifiedState, healthCheckManager, lifecycle, limits, now, callLog, stateLog, stateWrites, lockHolder,
                   idleProbeIntervalMs, currentRole, isAcquired, currentState,
                   fnRunning>>

\* the Redis server executes the release of the stopping holder
MutexReleased(i) ==
    /\ managerState[i] = STOPPING
    /\ lockHolder = i
    /\ lockHolder' = None
    /\ emitted' = Quiet
    /\ UNCHANGED <<reader, notifiedState, healthCheckManager, lifecycle, limits, now, callLog, stateLog, stateWrites, idleProbeIntervalMs,
                   managerState, currentRole, isAcquired, currentState, events,
                   healthCheckLoop, fnRunning>>

\* LeaderElector.stopInternal after `await this.mutex.release()`:
\* setRole(FOLLOWER); then the orchestrator's stop resolves, the scheduler's
\* stop() that stopInternal awaits having resolved
StopDone(i) ==
    /\ managerState[i] = STOPPING
    /\ lockHolder # i
    /\ ~healthCheckLoop[i].awaited
    /\ isAcquired' = [isAcquired EXCEPT ![i] = FALSE]
    /\ healthCheckLoop' = [healthCheckLoop EXCEPT ![i] = SetRoleLoop(i, FOLLOWER)]
    /\ emitted' = SetRoleEmits(i, FOLLOWER)
    /\ currentRole' = [currentRole EXCEPT ![i] = FOLLOWER]
    /\ managerState' = [managerState EXCEPT ![i] = INACTIVE]
    /\ UNCHANGED <<reader, notifiedState, healthCheckManager, lifecycle, limits, now, callLog, stateLog, stateWrites, lockHolder,
                   idleProbeIntervalMs, currentState, events, fnRunning>>

\* CircuitBreaker.handleError(message, cause): onError, or console.error when
\* no onError was supplied; `result` is what execute handed to its caller in
\* the same step, if it returned in it
handleError(i, message) ==
    Emit("error", i, [message |-> message, handler |-> "handleError", result |-> None])

\* a rejected promise that no caller awaits or catches: neither onError nor
\* console.error is called by the library
UnhandledRejection(i, message, result) ==
    Emit("error", i, [message |-> message, handler |-> "none", result |-> result])

\* fn() settles and the XADD of storeCallResult is rejected: execute has
\* returned or rethrown without awaiting recordCallResult, whose promise rejects
AppendFails(i, callResult) ==
    /\ fnRunning[i] > 0
    /\ fnRunning' = [fnRunning EXCEPT ![i] = @ - 1]
    /\ emitted' = UnhandledRejection(i, "call-result append", callResult)
    /\ UNCHANGED <<reader, notifiedState, healthCheckManager, lifecycle, limits, now, callLog, stateLog, stateWrites, lockHolder,
                   idleProbeIntervalMs, managerState, currentRole, isAcquired,
                   currentState, events, healthCheckLoop>>

\* the XADD of a setState call is rejected: the awaiting method
\* (handleEventsAdded, onHealthCheckSuccess, onHealthCheckFailure) rejects
\* before it restarts the scheduler, and its promise was discarded with `void`
StateWriteFails(i) ==
    /\ Len(stateWrites[i]) > 0
    /\ stateWrites' = [stateWrites EXCEPT ![i] = Tail(@)]
    /\ emitted' = UnhandledRejection(i, "state append", None)
    /\ UNCHANGED <<reader, notifiedState, healthCheckManager, lifecycle, limits, now, callLog, stateLog, lockHolder, idleProbeIntervalMs,
                   managerState, currentRole, isAcquired, currentState, events,
                   healthCheckLoop, fnRunning>>

\* XREAD of one of the two stream readers throws: listenLoop reports to
\* onError (onStreamReadError -> handleError) and retries after a delay
ReadFails(i, stream) ==
    /\ managerState[i] = OPERATIONAL
    /\ emitted' = handleError(i, stream)
    /\ UNCHANGED <<reader, notifiedState, healthCheckManager, lifecycle, limits, now, callLog, stateLog, stateWrites, lockHolder,
                   idleProbeIntervalMs, managerState, currentRole, isAcquired,
                   currentState, events, healthCheckLoop, fnRunning>>

\* attemptAcquireLeadership: tryAcquire throws; onAcquireError -> handleError,
\* the mutex is not acquired and the role stays as it is
AcquireFails(i) ==
    /\ managerState[i] = OPERATIONAL
    /\ ~isAcquired[i]
    /\ emitted' = handleError(i, "LeaderElector acquire error")
    /\ UNCHANGED <<reader, notifiedState, healthCheckManager, lifecycle, limits, now, callLog, stateLog, stateWrites, lockHolder,
                   idleProbeIntervalMs, managerState, currentRole, isAcquired,
                   currentState, events, healthCheckLoop, fnRunning>>

\* Redis commands of the instances in I that fail
Faults(I) ==
    \/ \E i \in I, r \in {SUCCESS, FAILURE} : AppendFails(i, r)
    \/ \E i \in I : StateWriteFails(i)
    \/ \E i \in I, stream \in {"CallResultStore stream read error",
                               "CircuitStateStore stream read error"} :
          ReadFails(i, stream)
    \/ \E i \in I : AcquireFails(i)

\* calls made to the lifecycle manager so far
LifecycleCalls ==
    lifecycle.startCalls + lifecycle.stopCalls + lifecycle.restartCalls

\* a caller calls start(config) on the lifecycle manager
CallStart(config) ==
    /\ LifecycleCalls < MaxLifecycleCalls
    /\ lifecycle' = start([lifecycle EXCEPT !.startCalls = @ + 1,
                                            !.configs = @ \cup {config},
                                            !.lastCall = "start",
                                            !.lastConfig = config,
                                            !.path = <<>>], config)
    /\ emitted' = Quiet
    /\ UNCHANGED <<reader, notifiedState, healthCheckManager, limits, now, callLog, stateLog, stateWrites, lockHolder,
                   idleProbeIntervalMs, managerState, currentRole, isAcquired,
                   currentState, events, healthCheckLoop, fnRunning>>

\* a caller calls stop() on the lifecycle manager
CallStop ==
    /\ LifecycleCalls < MaxLifecycleCalls
    /\ lifecycle' = stop([lifecycle EXCEPT !.stopCalls = @ + 1,
                                           !.lastCall = "stop",
                                           !.lastConfig = None,
                                           !.path = <<>>])
    /\ emitted' = Quiet
    /\ UNCHANGED <<reader, notifiedState, healthCheckManager, limits, now, callLog, stateLog, stateWrites, lockHolder,
                   idleProbeIntervalMs, managerState, currentRole, isAcquired,
                   currentState, events, healthCheckLoop, fnRunning>>

\* a caller calls restart(config) on the lifecycle manager
CallRestart(config) ==
    /\ LifecycleCalls < MaxLifecycleCalls
    /\ lifecycle' = restart([lifecycle EXCEPT !.restartCalls = @ + 1,
                                              !.lastCall = "restart",
                                              !.lastConfig = config,
                                              !.path = <<>>], config)
    /\ emitted' = Quiet
    /\ UNCHANGED <<reader, notifiedState, healthCheckManager, limits, now, callLog, stateLog, stateWrites, lockHolder,
                   idleProbeIntervalMs, managerState, currentRole, isAcquired,
                   currentState, events, healthCheckLoop, fnRunning>>

\* the startPromise of the lifecycle manager settles
StartInternalSettled(ok) ==
    /\ lifecycle.lifecycleState = STARTING
    /\ lifecycle' = afterStartInternal(lifecycle, ok)
    /\ emitted' = Quiet
    /\ UNCHANGED <<reader, notifiedState, healthCheckManager, limits, now, callLog, stateLog, stateWrites, lockHolder,
                   idleProbeIntervalMs, managerState, currentRole, isAcquired,
                   currentState, events, healthCheckLoop, fnRunning>>

\* the stopPromise of the lifecycle manager settles
StopInternalSettled(ok) ==
    /\ lifecycle.lifecycleState = STOPPING
    /\ lifecycle' = afterStopInternal(lifecycle, ok)
    /\ emitted' = Quiet
    /\ UNCHANGED <<reader, notifiedState, healthCheckManager, limits, now, callLog, stateLog, stateWrites, lockHolder,
                   idleProbeIntervalMs, managerState, currentRole, isAcquired,
                   currentState, events, healthCheckLoop, fnRunning>>

\* a call of start, stop or restart on the HealthCheckManager, taking its
\* lifecycle to next
ManagerCall(next) ==
    /\ LifecycleCalls < SchedulerCalls
    /\ lifecycle' = next
    /\ healthCheckManager' = internals(lifecycle, next, healthCheckManager)
    /\ emitted' = Quiet
    /\ UNCHANGED <<reader, notifiedState, limits, now, callLog, stateLog, stateWrites, lockHolder,
                   idleProbeIntervalMs, managerState, currentRole, isAcquired,
                   currentState, events, healthCheckLoop, fnRunning>>

ManagerStart(options) ==
    ManagerCall(start([lifecycle EXCEPT !.startCalls = @ + 1,
                                        !.configs = @ \cup {options},
                                        !.lastCall = "start",
                                        !.lastConfig = options,
                                        !.path = <<>>], options))

ManagerStop ==
    ManagerCall(stop([lifecycle EXCEPT !.stopCalls = @ + 1,
                                       !.lastCall = "stop",
                                       !.lastConfig = None, !.path = <<>>]))

ManagerRestart(options) ==
    ManagerCall(restart([lifecycle EXCEPT !.restartCalls = @ + 1,
                                          !.lastCall = "restart",
                                          !.lastConfig = options,
                                          !.path = <<>>], options))

\* the promise startInternal returned, Promise.resolve(), is awaited by start:
\* the manager is OPERATIONAL and the calls that waited continue
ManagerStarted ==
    LET next == afterStartInternal(lifecycle, TRUE)
    IN  /\ lifecycle.lifecycleState = STARTING
        /\ lifecycle' = next
        /\ healthCheckManager' = internals(lifecycle, next, healthCheckManager)
        /\ emitted' = Quiet
        /\ UNCHANGED <<reader, notifiedState, limits, now, callLog, stateLog, stateWrites, lockHolder,
                       idleProbeIntervalMs, managerState, currentRole, isAcquired,
                       currentState, events, healthCheckLoop, fnRunning>>

\* stopInternal continues after `await this.healthCheckLoop.promise`:
\* healthCheckLoop = null, the manager is INACTIVE and the calls that waited
\* continue
ManagerStopped ==
    LET next == afterStopInternal(lifecycle, TRUE)
    IN  /\ lifecycle.lifecycleState = STOPPING
        /\ LoopPromiseSettled(healthCheckManager)
        /\ lifecycle' = next
        /\ healthCheckManager' =
              internals(lifecycle, next,
                        [healthCheckManager EXCEPT !.healthCheckLoop = 0])
        /\ emitted' = Quiet
        /\ UNCHANGED <<reader, notifiedState, limits, now, callLog, stateLog, stateWrites, lockHolder,
                       idleProbeIntervalMs, managerState, currentRole, isAcquired,
                       currentState, events, healthCheckLoop, fnRunning>>

\* the delay of loop l was aborted: it resolves early and the loop returns
LoopReturns(l) ==
    /\ healthCheckManager.loops[l].pos = "delay"
    /\ healthCheckManager.loops[l].aborted
    /\ healthCheckManager' = [healthCheckManager EXCEPT !.loops[l].pos = "returned"]
    /\ emitted' = Quiet
    /\ UNCHANGED <<reader, notifiedState, lifecycle, limits, now, callLog, stateLog, stateWrites, lockHolder,
                   idleProbeIntervalMs, managerState, currentRole, isAcquired,
                   currentState, events, healthCheckLoop, fnRunning>>

\* the timer of the delay of loop l fires, the signal is not aborted: runCheck
\* is invoked. Timers fire after the microtasks of a start in progress
RunCheckBegins(l) ==
    LET loop == healthCheckManager.loops[l]
    IN  /\ lifecycle.lifecycleState # STARTING
        /\ loop.pos = "delay"
        /\ ~loop.aborted
        /\ now >= loop.until
        /\ loop.attempt <= SchedulerAttempt
        /\ healthCheckManager' =
              [healthCheckManager EXCEPT !.loops[l].pos = "runCheck",
                                         !.loops[l].checks = @ + 1]
        /\ emitted' = Emit("runCheck", l, [type |-> loop.type,
                                            attempt |-> loop.attempt])
        /\ UNCHANGED <<reader, notifiedState, lifecycle, limits, now, callLog, stateLog, stateWrites, lockHolder,
                       idleProbeIntervalMs, managerState, currentRole, isAcquired,
                       currentState, events, healthCheckLoop, fnRunning>>

\* the runCheck of loop l settles
RunCheckSettles(l) ==
    /\ lifecycle.lifecycleState # STARTING
    /\ healthCheckManager.loops[l].pos = "runCheck"
    /\ healthCheckManager' = [healthCheckManager EXCEPT !.loops[l] = afterRunCheck(@)]
    /\ emitted' = Quiet
    /\ UNCHANGED <<reader, notifiedState, lifecycle, limits, now, callLog, stateLog, stateWrites, lockHolder,
                   idleProbeIntervalMs, managerState, currentRole, isAcquired,
                   currentState, events, healthCheckLoop, fnRunning>>

\* a call of start or stop on the RedisStreamReader, taking its lifecycle to
\* next
ReaderCall(next) ==
    /\ LifecycleCalls < ReaderCalls
    /\ lifecycle' = next
    /\ reader' = readerInternals(lifecycle, next, reader)
    /\ emitted' = Quiet
    /\ UNCHANGED <<healthCheckManager, notifiedState, limits, now, callLog, stateLog, stateWrites, lockHolder,
                   idleProbeIntervalMs, managerState, currentRole, isAcquired,
                   currentState, events, healthCheckLoop, fnRunning>>

ReaderStart ==
    ReaderCall(start([lifecycle EXCEPT !.startCalls = @ + 1,
                                       !.configs = @ \cup {None},
                                       !.lastCall = "start",
                                       !.lastConfig = None,
                                       !.path = <<>>], None))

ReaderStop ==
    ReaderCall(stop([lifecycle EXCEPT !.stopCalls = @ + 1,
                                      !.lastCall = "stop",
                                      !.lastConfig = None, !.path = <<>>]))

\* the promise startInternal returned, Promise.resolve(), is awaited by start
ReaderStarted ==
    LET next == afterStartInternal(lifecycle, TRUE)
    IN  /\ lifecycle.lifecycleState = STARTING
        /\ lifecycle' = next
        /\ reader' = readerInternals(lifecycle, next, reader)
        /\ emitted' = Quiet
        /\ UNCHANGED <<healthCheckManager, notifiedState, limits, now, callLog, stateLog, stateWrites, lockHolder,
                       idleProbeIntervalMs, managerState, currentRole, isAcquired,
                       currentState, events, healthCheckLoop, fnRunning>>

\* stopInternal continues after `await this.readerLoop.promise`:
\* readerLoop = null, the reader is INACTIVE and the calls that waited continue
ReaderStopped ==
    LET next == afterStopInternal(lifecycle, TRUE)
    IN  /\ lifecycle.lifecycleState = STOPPING
        /\ ReaderPromiseSettled(reader)
        /\ lifecycle' = next
        /\ reader' = readerInternals(lifecycle, next,
                                      [reader EXCEPT !.readerLoop = 0])
        /\ emitted' = Quiet
        /\ UNCHANGED <<healthCheckManager, notifiedState, limits, now, callLog, stateLog, stateWrites, lockHolder,
                       idleProbeIntervalMs, managerState, currentRole, isAcquired,
                       currentState, events, healthCheckLoop, fnRunning>>

\* some client appends an entry to the stream the reader reads
StreamAppend ==
    /\ reader.stream < ReaderEntries
    /\ reader' = [reader EXCEPT !.stream = @ + 1]
    /\ emitted' = Quiet
    /\ UNCHANGED <<lifecycle, healthCheckManager, notifiedState, limits, now, callLog, stateLog, stateWrites, lockHolder,
                   idleProbeIntervalMs, managerState, currentRole, isAcquired,
                   currentState, events, healthCheckLoop, fnRunning>>

\* the XREAD of loop l returns the entries from+1..m (none when m = from: the
\* block timed out): a non-empty result is handed to onEntries, whose owner
\* moves its last id to m; then the test of the while loop. A reply that was
\* received before the disconnect of a stop is still processed
XreadReturns(l, m) ==
    LET loop == reader.loops[l]
    IN  /\ lifecycle.lifecycleState # STARTING
        /\ loop.pos = "xread"
        /\ m \in loop.from..reader.stream
        /\ reader' = [reader EXCEPT
              !.lastId = IF m > loop.from THEN m ELSE @,
              !.loops[l] = whileNotAborted(loop,
                              IF m > loop.from THEN m ELSE reader.lastId)]
        /\ emitted' = IF m > loop.from
                      THEN Emit("onEntries", l, [first |-> loop.from + 1,
                                                 last |-> m])
                      ELSE Quiet
        /\ UNCHANGED <<lifecycle, healthCheckManager, notifiedState, limits, now, callLog, stateLog, stateWrites, lockHolder,
                       idleProbeIntervalMs, managerState, currentRole, isAcquired,
                       currentState, events, healthCheckLoop, fnRunning>>

\* the XREAD of loop l is rejected (the connection failed, or stopInternal
\* disconnected it): the catch branch
XreadFails(l) ==
    LET loop == reader.loops[l]
    IN  /\ lifecycle.lifecycleState # STARTING
        /\ loop.pos = "xread"
        /\ loop.errors < ReaderErrors \/ loop.aborted
        /\ reader' = [reader EXCEPT !.loops[l] = catch(loop)]
        /\ emitted' = IF loop.aborted THEN Quiet
                      ELSE Emit("onError", l, "xread")
        /\ UNCHANGED <<lifecycle, healthCheckManager, notifiedState, limits, now, callLog, stateLog, stateWrites, lockHolder,
                       idleProbeIntervalMs, managerState, currentRole, isAcquired,
                       currentState, events, healthCheckLoop, fnRunning>>

\* the pause of loop l after a failed read ends, ERROR_RETRY_DELAY_MS after it
\* began or as soon as the signal is aborted: the test of the while loop
RetryDelayEnds(l) ==
    LET loop == reader.loops[l]
    IN  /\ lifecycle.lifecycleState # STARTING
        /\ loop.pos = "delay"
        /\ loop.aborted \/ now >= loop.until
        /\ reader' = [reader EXCEPT !.loops[l] = whileNotAborted(loop, reader.lastId)]
        /\ emitted' = Quiet
        /\ UNCHANGED <<lifecycle, healthCheckManager, notifiedState, limits, now, callLog, stateLog, stateWrites, lockHolder,
                       idleProbeIntervalMs, managerState, currentRole, isAcquired,
                       currentState, events, healthCheckLoop, fnRunning>>

\* call traffic through the instances in I, and the clock
Calls(I) ==
    \/ Tick
    \/ \E i \in I : Execute(i)
    \/ \E i \in I, r \in {SUCCESS, FAILURE} : FnSettled(i, r)
    \/ \E i \in I, m \in 1..Len(callLog) : TailCalls(i, m)

\* start, election, state tailing and probing of the instances in I
Core(I) ==
    \/ \E i \in I : Start(i)
    \/ \E i \in I, m \in 1..Len(stateLog) : TailState(i, m)
    \/ \E i \in I : CheckBegin(i)
    \/ \E i \in I, ok \in BOOLEAN : CheckSettled(i, ok)
    \/ \E i \in I : StateWriteDone(i)
    \/ \E i \in I : AttemptAcquire(i)

\* loss of the lock and stop of the instances in I
Churn(I) ==
    \/ \E i \in I : LockLost(i)
    \/ \E i \in I : Stop(i)
    \/ \E i \in I : MutexReleased(i)
    \/ \E i \in I : StopDone(i)

(* --------- one breaker: traffic, probes, role churn, restarts ---------- *)
Next == Calls(Solo) \/ Core(Solo) \/ Churn(Solo)

Spec == Init /\ [][Next]_vars

(* ---- one breaker that stays leader, no idle probing (recovery scenario) -- *)
ScenarioInit ==
    InitWith([time |-> ScenarioTime, calls |-> ScenarioCalls,
              stateWrites |-> ScenarioStateWrites, attempts |-> ScenarioAttempt,
              history |-> FALSE, timed |-> FALSE],
             {0})

ScenarioNext == Calls(Solo) \/ Core(Solo)

ScenarioSpec == ScenarioInit /\ [][ScenarioNext]_vars

(* ------- two breakers sharing the circuit id, idle probing configured ---- *)
ClusterInit ==
    InitWith([time |-> 1, calls |-> ClusterCalls,
              stateWrites |-> ClusterStateWrites, attempts |-> ClusterAttempt,
              history |-> FALSE, timed |-> FALSE],
             {IdleProbeInterval})

ClusterNext ==
    \/ \E i \in Inst : Execute(i)
    \/ Core(Inst)
    \/ Churn(Inst)

ClusterSpec == ClusterInit /\ [][ClusterNext]_vars

(* ---- two breakers that are never stopped: how the state log spreads ----- *)
PropagationNext ==
    \/ \E i \in Inst : Execute(i)
    \/ Core(Inst)
    \/ \E i \in Inst : LockLost(i)

\* the stream reader of an operational instance keeps reading (listenLoop), and
\* an XADD sent to the server completes
PropagationFairness ==
    \A i \in Inst :
        /\ WF_vars(\E m \in 1..Len(stateLog) : TailState(i, m))
        /\ WF_vars(StateWriteDone(i))

PropagationSpec == ClusterInit /\ [][PropagationNext]_vars /\ PropagationFairness

(* ------------- one breaker whose Redis commands can fail ----------------- *)
FaultInit ==
    InitWith([time |-> FaultTime, calls |-> FaultCalls,
              stateWrites |-> FaultStateWrites, attempts |-> FaultAttempt,
              history |-> FALSE, timed |-> FALSE],
             {0, IdleProbeInterval})

FaultNext == Calls(Solo) \/ Core(Solo) \/ Faults(Solo)

FaultSpec == FaultInit /\ [][FaultNext]_vars

(* -------- one lifecycle manager called by several callers at once -------- *)
LifecycleInit ==
    InitWith([time |-> 1, calls |-> 0, stateWrites |-> 0, attempts |-> 0,
              history |-> FALSE, timed |-> FALSE], {0})

LifecycleNext ==
    \/ \E config \in Configs : CallStart(config)
    \/ CallStop
    \/ \E config \in Configs : CallRestart(config)
    \/ \E ok \in BOOLEAN : StartInternalSettled(ok)
    \/ \E ok \in BOOLEAN : StopInternalSettled(ok)

LifecycleSpec == LifecycleInit /\ [][LifecycleNext]_vars

(* ------ one HealthCheckManager started, stopped and restarted ------------ *)
SchedulerInit ==
    InitWith([time |-> SchedulerTime, calls |-> 0, stateWrites |-> 0,
              attempts |-> 0, history |-> FALSE, timed |-> FALSE], {0})

SchedulerNext ==
    \/ Tick
    \/ \E options \in SchedulerOptions : ManagerStart(options)
    \/ ManagerStop
    \/ \E options \in SchedulerOptions : ManagerRestart(options)
    \/ ManagerStarted
    \/ ManagerStopped
    \/ \E l \in 1..Len(healthCheckManager.loops) : LoopReturns(l)
    \/ \E l \in 1..Len(healthCheckManager.loops) : RunCheckBegins(l)
    \/ \E l \in 1..Len(healthCheckManager.loops) : RunCheckSettles(l)

SchedulerSpec == SchedulerInit /\ [][SchedulerNext]_vars

(* ------ one RedisStreamReader started and stopped while it reads --------- *)
ReaderInit ==
    InitWith([time |-> ReaderTime, calls |-> 0, stateWrites |-> 0,
              attempts |-> 0, history |-> FALSE, timed |-> FALSE], {0})

ReaderNext ==
    \/ Tick
    \/ ReaderStart
    \/ ReaderStop
    \/ ReaderStarted
    \/ ReaderStopped
    \/ StreamAppend
    \/ \E l \in 1..Len(reader.loops), m \in 0..ReaderEntries : XreadReturns(l, m)
    \/ \E l \in 1..Len(reader.loops) : XreadFails(l)
    \/ \E l \in 1..Len(reader.loops) : RetryDelayEnds(l)

ReaderSpec == ReaderInit /\ [][ReaderNext]_vars

(* --- two call-result stores on one stream: load on start, tail, stop ----- *)
StoreInit ==
    InitWith([time |-> 1, calls |-> StoreCalls, stateWrites |-> 0,
              attempts |-> 0, history |-> FALSE, timed |-> FALSE],
             {0})

StoreNext ==
    \/ \E i \in Inst : Start(i)
    \/ \E i \in Inst : Execute(i)
    \/ \E i \in Inst, r \in {SUCCESS, FAILURE} : FnSettled(i, r)
    \/ \E i \in Inst, m \in 1..Len(callLog) : TailCalls(i, m)
    \/ \E i \in Inst : Stop(i)
    \/ \E i \in Inst : StopDone(i)

StoreSpec == StoreInit /\ [][StoreNext]_vars

(* ---- one breaker that stays leader, Idle sleeps measured by the clock ---- *)
IdleInit ==
    InitWith([time |-> IdleTime, calls |-> IdleCalls,
              stateWrites |-> IdleStateWrites, attempts |-> IdleAttempt,
              history |-> FALSE, timed |-> TRUE],
             {IdleInterval})

IdleNext == Calls(Solo) \/ Core(Solo)

IdleSpec == IdleInit /\ [][IdleNext]_vars

(* ---- one breaker with idle probing, stopped and started again ----------- *)
RestartInit ==
    InitWith([time |-> 1, calls |-> 0,
              stateWrites |-> RestartStateWrites, attempts |-> RestartAttempt,
              history |-> TRUE, timed |-> FALSE],
             {IdleProbeInterval})

RestartNext == Core(Solo) \/ Churn(Solo)

RestartSpec == RestartInit /\ [][RestartNext]_vars

(* ---- two electors on one key, started and stopped: leadership handover --- *)
HandoverInit ==
    InitWith([time |-> 1, calls |-> 0,
              stateWrites |-> HandoverStateWrites, attempts |-> HandoverAttempt,
              history |-> FALSE, timed |-> FALSE],
             {IdleProbeInterval})

HandoverNext == Core(Inst) \/ Churn(Inst)

\* the acquire loop of a started elector keeps attempting (every
\* ACQUIRE_LOOP_DELAY_MS), the server executes a release it was sent, and
\* stopInternal continues once the release returned
HandoverFairness ==
    \A i \in Inst :
        /\ WF_vars(AttemptAcquire(i))
        /\ WF_vars(MutexReleased(i))
        /\ WF_vars(StopDone(i))
        /\ WF_vars(\E ok \in BOOLEAN : CheckSettled(i, ok))

HandoverSpec == HandoverInit /\ [][HandoverNext]_vars /\ HandoverFairness

(* ======================== properties of the breaker ===================== *)
Operational(i) == managerState[i] = OPERATIONAL

LogEndsIn(st) == Len(stateLog) > 0 /\ Last(stateLog).state = st

\* what execute hands back when it refuses a call
Refused ==
    [fn |-> FALSE, recordBlockedRequest |-> 1,
     result |-> <<"CircuitOpenError", CircuitId>>]

\* C1: every execute(fn) called while the instance's cached state is OPEN leaves
\* fn uninvoked, fails with CircuitOpenError carrying the circuit id, calls
\* metrics.recordBlockedRequest once and appends nothing to the call-result log
C1_BlockedExecute ==
    [][\A i \in Inst :
          (Execute(i) /\ currentState[i].state = OPEN) =>
              /\ emitted' = Emit("execute", i, Refused)
              /\ callLog' = callLog
              /\ fnRunning' = fnRunning]_vars

\* an execute was refused on an instance whose cached state is OPEN
C1_Witness ==
    /\ emitted.op = "execute"
    /\ emitted.arg = Refused
    /\ currentState[emitted.inst].state = OPEN

\* C2: at every instant at most one instance has role LEADER
C2_AtMostOneLeader ==
    Cardinality({i \in Inst : currentRole[i] = LEADER}) <= 1

\* C3 as stated: an entry reaches the state log only while the instance that
\* wrote it has role LEADER
C3_AppendsOnlyAsLeader ==
    [][\A i \in Inst : StateWriteDone(i) => currentRole[i] = LEADER]_vars

\* C3 amended: every setState call (the XADD being sent) is made by an instance
\* whose role is LEADER at the call; the entry may reach the log later
C3_SetStateOnlyAsLeader ==
    [][\A i \in Inst :
          Len(stateWrites'[i]) > Len(stateWrites[i]) =>
              currentRole[i] = LEADER /\ currentRole'[i] = LEADER]_vars

\* a setState call of a leader is in flight, sent at the current instant
C3_Witness ==
    \E i \in Inst :
        /\ stateWrites[i] # <<>>
        /\ currentRole[i] = LEADER
        /\ Last(stateWrites[i]).timestamp = now

\* C4: whenever the strategy is consulted, the slice it gets is not empty, holds
\* exactly the window's events with timestamp >= the cached state's timestamp
\* read at that moment, and so holds no event with a smaller timestamp
C4_StrategySeesRecentOnly ==
    emitted.op = "shouldOpenCircuit" =>
        LET i == emitted.inst
            T == currentState[i].timestamp
            slice == emitted.arg.events
        IN  /\ currentRole[i] = LEADER
            /\ emitted.arg.since = T
            /\ Len(slice) > 0
            /\ \A k \in 1..Len(slice) : slice[k].timestamp >= T
            /\ Len(slice) =
                  Cardinality({k \in 1..Len(events[i]) : events[i][k].timestamp >= T})

\* the strategy was consulted on a slice from which an older event was dropped
C4_Witness ==
    /\ emitted.op = "shouldOpenCircuit"
    /\ Len(emitted.arg.events) < Len(events[emitted.inst])

\* the newest entry, at or before the one instance i has cached, that turned the
\* circuit from OPEN to CLOSED (0: none)
LatestRecovery(i) ==
    LET R == {n \in 2..currentState[i].id :
                 stateLog[n].state = CLOSED /\ stateLog[n - 1].state = OPEN}
    IN  IF R = {} THEN 0 ELSE CHOOSE n \in R : \A o \in R : o <= n

\* the last `threshold` events of the window are failures recorded after T
EndsInFailuresAfter(window, T) ==
    /\ Len(window) >= threshold
    /\ \A k \in (Len(window) - threshold + 1)..Len(window) :
          window[k].callResult = FAILURE /\ window[k].timestamp > T

\* C5 (second half): once a recovery returned the circuit to CLOSED, a leader
\* that evaluates a window ending in `threshold` consecutive failures recorded
\* after that recovery decides to open the circuit
C5_KthFailureOpens ==
    \A i \in Inst :
        ( /\ emitted.op = "shouldOpenCircuit"
          /\ emitted.inst = i
          /\ LatestRecovery(i) > 0
          /\ EndsInFailuresAfter(events[i], stateLog[LatestRecovery(i)].timestamp) )
        => emitted.arg.verdict

\* C6: health.check is invoked only on an instance whose role is LEADER
C6_ProbeOnlyOnLeader ==
    emitted.op = "check" => currentRole[emitted.inst] = LEADER

\* every entry an instance has cached is the entry of that id in the state log
CacheReflectsLog ==
    \A i \in Inst :
        currentState[i].id > 0 =>
            currentState[i] =
                [id |-> currentState[i].id,
                 state |-> stateLog[currentState[i].id].state,
                 timestamp |-> stateLog[currentState[i].id].timestamp]

\* C7: while the state log ends in an OPEN entry, every instance that stays
\* operational eventually has cached state OPEN; what it caches is what the log
\* holds, and an execute on an instance with cached OPEN is refused
C7_BlockingPropagates ==
    /\ \A i \in Inst :
          (LogEndsIn(OPEN) /\ Operational(i))
              ~> (currentState[i].state = OPEN \/ ~LogEndsIn(OPEN) \/ ~Operational(i))
    /\ []CacheReflectsLog
    /\ []((emitted.op = "execute" /\ currentState[emitted.inst].state = OPEN)
              => emitted.arg = Refused)

\* a follower has caught up with a log ending in OPEN and refused an execute
C7_Witness ==
    \E i \in Inst :
        /\ Operational(i)
        /\ currentRole[i] = FOLLOWER
        /\ LogEndsIn(OPEN)
        /\ currentState[i].id = Len(stateLog)
        /\ emitted = Emit("execute", i, Refused)

\* a leader's recovery probe succeeded while the log ends in OPEN: its CLOSED
\* entry is on the way
RecoverySucceeded ==
    /\ LogEndsIn(OPEN)
    /\ \E i \in Inst :
          /\ currentRole[i] = LEADER
          /\ \E k \in 1..Len(stateWrites[i]) : stateWrites[i][k].state = CLOSED

\* C8 as stated: after a leader's recovery probe succeeded while the circuit is
\* OPEN, every instance that stays operational eventually has onStateChange
\* invoked with CLOSED
C8_EveryInstanceNotified ==
    \A j \in Inst :
        RecoverySucceeded
            ~> (~Operational(j) \/ emitted = Emit("onStateChange", j, CLOSED))

\* C8 amended: the CLOSED entry of a successful recovery probe reaches the log;
\* every instance that stays operational eventually caches that entry or a later
\* one; and a delivery invokes onStateChange(CLOSED) exactly when the batch ends
\* in a CLOSED entry while the cached state is OPEN
C8_PassingPropagates ==
    /\ \A i \in Inst :
          (\E k \in 1..Len(stateWrites[i]) : stateWrites[i][k].state = CLOSED)
              ~> (\E n \in 1..Len(stateLog) : stateLog[n].state = CLOSED)
    /\ \A j \in Inst, n \in 1..ClusterStateWrites :
          (Len(stateLog) >= n /\ stateLog[n].state = CLOSED /\ Operational(j))
              ~> (~Operational(j) \/ currentState[j].id >= n)
    /\ [][\A j \in Inst, m \in 1..Len(stateLog) :
             TailState(j, m) =>
                 ( emitted' = Emit("onStateChange", j, CLOSED)
                   <=> (currentState[j].state = OPEN /\ stateLog[m].state = CLOSED) )]_vars

\* a follower with cached OPEN was delivered the CLOSED entry and notified
C8_Witness ==
    \E j \in Inst :
        /\ currentRole[j] = FOLLOWER
        /\ LogEndsIn(CLOSED)
        /\ currentState[j].id = Len(stateLog)
        /\ emitted = Emit("onStateChange", j, CLOSED)

\* C9: no Recovery probe begins on a leader while the circuit is CLOSED (the log
\* ends in CLOSED, the leader has cached that entry and has no write in flight)
C9_RecoveryStops ==
    ( /\ emitted.op = "check"
      /\ emitted.arg = RECOVERY
      /\ currentRole[emitted.inst] = LEADER )
    => ~( /\ LogEndsIn(CLOSED)
          /\ currentState[emitted.inst].id = Len(stateLog)
          /\ stateWrites[emitted.inst] = <<>> )

\* nothing is on its way to instance i or from it
Settled(i) ==
    /\ Operational(i)
    /\ stateWrites[i] = <<>>
    /\ currentState[i].id = Len(stateLog)
    /\ CallLastId(events[i]) = Len(callLog)
    /\ fnRunning[i] = 0

\* C10: no settled leader with cached state OPEN is left without a scheduler loop
C10_NoStuckBlocking ==
    \A i \in Inst :
        ~( /\ Settled(i)
           /\ currentRole[i] = LEADER
           /\ currentState[i].state = OPEN
           /\ healthCheckLoop[i].lifecycleState = INACTIVE )

\* C11: health.check is invoked with kind IDLE only on an instance whose cached
\* circuit state is CLOSED
C11_IdleOnlyWhilePassing ==
    (emitted.op = "check" /\ emitted.arg = IDLE)
        => currentState[emitted.inst].state = CLOSED

\* the scheduler record right after restart(RECOVERY) was called on it: a new
\* Recovery loop, or the old loop aborted with the Recovery loop queued
RestartedInRecovery(h) ==
    \/ h = StartLoop(RECOVERY)
    \/ h.lifecycleState = STOPPING /\ h.aborted /\ h.pending = RECOVERY

\* an Idle probe of instance i fails now: health.check throws, the loop was not
\* aborted, the instance is leader
IdleProbeFails(i) ==
    /\ CheckSettled(i, FALSE)
    /\ healthCheckLoop[i].type = IDLE
    /\ ~healthCheckLoop[i].aborted
    /\ currentRole[i] = LEADER

\* C12 as stated: once the OPEN entry of a failed Idle probe is appended, the
\* scheduler of the instance that wrote it is restarted in Recovery mode
C12_FailureStartsRecovery ==
    [][\A i \in Inst :
          (StateWriteDone(i) /\ Head(stateWrites[i]).state = OPEN)
              => RestartedInRecovery(healthCheckLoop'[i])]_vars

\* C12 amended: a failed Idle probe on the leader sends an OPEN transition
\* stamped with the current time; the entry reaches the state log; when it does,
\* the scheduler is restarted in Recovery mode if the instance is still leader
\* and is left as it is otherwise
C12_FailureStartsRecoveryIfLeader ==
    /\ [][\A i \in Inst :
             IdleProbeFails(i) =>
                 stateWrites'[i] =
                     Append(stateWrites[i],
                            [state |-> OPEN, timestamp |-> now, then |-> RECOVERY])]_vars
    /\ [][\A i \in Inst :
             (StateWriteDone(i) /\ Head(stateWrites[i]).state = OPEN) =>
                 /\ stateLog' = Append(stateLog,
                        [state |-> OPEN, timestamp |-> Head(stateWrites[i]).timestamp])
                 /\ IF currentRole[i] = LEADER
                    THEN RestartedInRecovery(healthCheckLoop'[i])
                    ELSE healthCheckLoop'[i] = healthCheckLoop[i]]_vars
    /\ \A i \in Inst :
          (\E k \in 1..Len(stateWrites[i]) : stateWrites[i][k].state = OPEN)
              ~> (\E n \in 1..Len(stateLog) : stateLog[n].state = OPEN)

\* the OPEN entry of a leader's failed Idle probe is in the log, not yet
\* delivered to that leader, and its scheduler runs a Recovery loop
C12_Witness ==
    \E i \in Inst :
        /\ currentRole[i] = LEADER
        /\ LogEndsIn(OPEN)
        /\ currentState[i].state = CLOSED
        /\ stateWrites[i] = <<>>
        /\ healthCheckLoop[i] = StartLoop(RECOVERY)

\* the elector of instance i is stopped: no acquire loop, role FOLLOWER, its
\* mutex object not acquired and the key not held in its name
ElectorAtRest(i) ==
    /\ currentRole[i] = FOLLOWER
    /\ ~isAcquired[i]
    /\ lockHolder # i

\* C13: a stop in progress completes; when it resolves the key is not held by
\* the stopped elector, its role is FOLLOWER and onRoleChange(FOLLOWER) was fired
\* by that step exactly if the role was LEADER; a stopped elector makes no
\* acquire attempt; and while it stays stopped, the other elector, if it stays
\* started, eventually is LEADER
C13_StopHandsOver ==
    /\ \A i \in Inst : (managerState[i] = STOPPING) ~> (managerState[i] = INACTIVE)
    /\ [][\A i \in Inst :
             StopDone(i) =>
                 /\ managerState'[i] = INACTIVE
                 /\ ( emitted' = Emit("onRoleChange", i, FOLLOWER)
                      <=> currentRole[i] = LEADER )
                 /\ ( emitted' # Emit("onRoleChange", i, FOLLOWER) => emitted' = Quiet )]_vars
    /\ [](\A i \in Inst : managerState[i] = INACTIVE => ElectorAtRest(i))
    /\ [][\A i \in Inst : managerState[i] = INACTIVE => lockHolder' # i]_vars
    /\ \A i, j \in Inst :
          (i # j /\ managerState[i] = INACTIVE /\ Operational(j))
              ~> (currentRole[j] = LEADER \/ ~Operational(j) \/ managerState[i] # INACTIVE)

\* the stop of a leader has just resolved with onRoleChange(FOLLOWER), and the
\* other elector, which is running, holds the key and is LEADER
C13_Witness ==
    \E i, j \in Inst :
        /\ i # j
        /\ managerState[i] = INACTIVE
        /\ ElectorAtRest(i)
        /\ emitted = Emit("onRoleChange", i, FOLLOWER)
        /\ Operational(j)
        /\ lockHolder = j
        /\ currentRole[j] = LEADER

\* a Recovery loop is running on the scheduler, or queued behind a stop
RecoveryScheduled(h) ==
    \/ h.lifecycleState = OPERATIONAL /\ h.type = RECOVERY
    \/ h.lifecycleState = STOPPING /\ h.pending = RECOVERY

\* C14: a Blocking state keeps being probed by whoever is leader: while the
\* state log ends in an OPEN entry, a leader that has cached that entry and has
\* no write of its own in flight has a Recovery loop running or queued
C14_BlockingProbedByLeader ==
    \A j \in Inst :
        ( /\ Operational(j)
          /\ currentRole[j] = LEADER
          /\ LogEndsIn(OPEN)
          /\ currentState[j].id = Len(stateLog)
          /\ stateWrites[j] = <<>> )
        => RecoveryScheduled(healthCheckLoop[j])

\* guarded calls made so far: recorded in the call-result log or still running
CallsMade == Len(callLog) + SumOver(fnRunning, Inst)

\* C15: an execute(fn) on an instance whose cached state is CLOSED invokes fn
\* and records no blocked request; every invoked fn settles into exactly one
\* call-result entry carrying its outcome and the current time, one recordCall
\* with that outcome, and that outcome handed to the caller; entries are
\* appended for invoked calls only, one each
C15_PassingExecute ==
    /\ [][\A i \in Inst :
             (Execute(i) /\ currentState[i].state = CLOSED) =>
                 /\ emitted' = Emit("execute", i,
                        [fn |-> TRUE, recordBlockedRequest |-> 0, result |-> "pending"])
                 /\ fnRunning'[i] = fnRunning[i] + 1
                 /\ callLog' = callLog]_vars
    /\ [][\A i \in Inst, r \in {SUCCESS, FAILURE} :
             FnSettled(i, r) =>
                 /\ callLog' = Append(callLog, [callResult |-> r, timestamp |-> now])
                 /\ emitted' = Emit("settled", i, [recordCall |-> r, result |-> r])
                 /\ fnRunning'[i] = fnRunning[i] - 1]_vars
    /\ [][CallsMade' = CallsMade +
             (IF emitted'.op = "execute" /\ emitted'.arg.fn THEN 1 ELSE 0)]_vars

\* two calls through a CLOSED circuit have settled, one resolved and one thrown
C15_Witness ==
    /\ emitted.op = "settled"
    /\ currentState[emitted.inst].state = CLOSED
    /\ Len(callLog) = 2
    /\ fnRunning[emitted.inst] = 0
    /\ {callLog[1].callResult, callLog[2].callResult} = {SUCCESS, FAILURE}

\* C16: every error of a subsystem (a stream read, the mutex acquire, an append
\* to either log) reaches handleError, which calls onError or logs
C16_ErrorsReachOnError ==
    emitted.op = "error" => emitted.arg.handler = "handleError"

\* what a state store whose cursor is at the end of the log must hold
LatestStateEvent ==
    IF Len(stateLog) = 0
    THEN [id |-> 0, state |-> CLOSED, timestamp |-> 0]
    ELSE [id |-> Len(stateLog), state |-> Last(stateLog).state,
          timestamp |-> Last(stateLog).timestamp]

\* C17: a started state store whose cursor is the position of the last entry of
\* the state log holds that entry's state and timestamp (CLOSED and 0 on an
\* empty log), and two started stores with the same cursor hold the same state
\* and timestamp
C17_CacheEqualsLogAtCursor ==
    /\ \A i \in Inst :
          (Operational(i) /\ currentState[i].id = Len(stateLog))
              => currentState[i] = LatestStateEvent
    /\ \A i, j \in Inst :
          (Operational(i) /\ Operational(j) /\ currentState[i].id = currentState[j].id)
              => currentState[i] = currentState[j]

\* two started stores have both tailed to the end of a log of two entries
C17_Witness ==
    /\ Len(stateLog) = 2
    /\ \A i \in Inst : Operational(i) /\ currentState[i].id = 2
    /\ currentState["a"].timestamp > 0

\* C18: the window of every call-result store holds at most maxLen events, in
\* strictly increasing log position, each being the log's entry at its position
C18_WindowBoundedAndOrdered ==
    \A i \in Inst :
        /\ Len(events[i]) <= maxLen
        /\ \A k \in 1..(Len(events[i]) - 1) : events[i][k].id < events[i][k + 1].id
        /\ \A k \in 1..Len(events[i]) :
              /\ events[i][k].id \in 1..Len(callLog)
              /\ events[i][k] =
                    mapEntryToCallResultEvent(events[i][k].id, callLog[events[i][k].id])

\* a delivery has just left a full window from which the oldest entry of a log
\* longer than maxLen was trimmed
C18_Witness ==
    /\ emitted.op = "shouldOpenCircuit"
    /\ Len(callLog) > maxLen
    /\ Len(events[emitted.inst]) = maxLen
    /\ events[emitted.inst][1].id = Len(callLog) - maxLen + 1

\* calls to the lifecycle manager that have not completed yet
PendingCalls ==
    LifecycleCalls - lifecycle.resolved - lifecycle.rejected

\* C19: on a manager that has only been sent start calls, all with equal
\* configs, and whose startInternal did not fail, startInternal has run exactly
\* once, no call has failed, and once every call has completed the manager is
\* OPERATIONAL; and a start with the config of a starting or running manager
\* never runs startInternal again
C19_StartIdempotent ==
    /\ []( ( /\ lifecycle.startCalls > 0
             /\ lifecycle.stopCalls = 0
             /\ lifecycle.restartCalls = 0
             /\ Cardinality(lifecycle.configs) = 1
             /\ lifecycle.lifecycleState # UNRECOVERABLE )
           => /\ lifecycle.startInternalCalled = 1
              /\ lifecycle.rejected = 0
              /\ lifecycle.lifecycleState \in {STARTING, OPERATIONAL}
              /\ lifecycle.config \in lifecycle.configs
              /\ PendingCalls = 0 =>
                    /\ lifecycle.lifecycleState = OPERATIONAL
                    /\ lifecycle.resolved = lifecycle.startCalls )
    /\ [][\A config \in Configs :
             ( /\ CallStart(config)
               /\ lifecycle.lifecycleState \in {STARTING, OPERATIONAL}
               /\ config = lifecycle.config )
             => /\ lifecycle'.startInternalCalled = lifecycle.startInternalCalled
                /\ lifecycle'.rejected = lifecycle.rejected
                /\ lifecycle'.lifecycleState = lifecycle.lifecycleState]_vars

\* three start calls with one config have all completed on a manager that was
\* never stopped, and startInternal has run once
C19_Witness ==
    /\ lifecycle.startCalls = 3
    /\ lifecycle.stopCalls = 0
    /\ lifecycle.restartCalls = 0
    /\ Cardinality(lifecycle.configs) = 1
    /\ lifecycle.resolved = 3
    /\ lifecycle.lifecycleState = OPERATIONAL
    /\ lifecycle.startInternalCalled = 1

\* C20: a stop() on an INACTIVE manager completes at once, changes nothing and
\* does not run stopInternal; on a manager that was sent one start and whose
\* startInternal and stopInternal did not fail, stopInternal has run at most
\* once, no call has failed, and once every call has completed after a last
\* call that was a stop, the manager is INACTIVE and stopInternal has run once
C20_StopIdempotent ==
    /\ [][(CallStop /\ lifecycle.lifecycleState = INACTIVE)
             => /\ lifecycle'.lifecycleState = INACTIVE
                /\ lifecycle'.stopInternalCalled = lifecycle.stopInternalCalled
                /\ lifecycle'.startInternalCalled = lifecycle.startInternalCalled
                /\ lifecycle'.resolved = lifecycle.resolved + 1
                /\ lifecycle'.rejected = lifecycle.rejected]_vars
    /\ []( (lifecycle.startCalls = 0 /\ lifecycle.restartCalls = 0)
           => /\ lifecycle.stopInternalCalled = 0
              /\ lifecycle.lifecycleState = INACTIVE
              /\ lifecycle.resolved = lifecycle.stopCalls )
    /\ []( ( /\ lifecycle.startCalls = 1
             /\ lifecycle.restartCalls = 0
             /\ lifecycle.lifecycleState # UNRECOVERABLE )
           => /\ lifecycle.stopInternalCalled <= 1
              /\ lifecycle.rejected = 0
              /\ (PendingCalls = 0 /\ lifecycle.lastCall = "stop") =>
                    /\ lifecycle.lifecycleState = INACTIVE
                    /\ lifecycle.stopInternalCalled = 1 )

\* one start and three stops have all completed, the last call being a stop,
\* and stopInternal has run once
C20_Witness ==
    /\ lifecycle.startCalls = 1
    /\ lifecycle.stopCalls = 3
    /\ lifecycle.restartCalls = 0
    /\ lifecycle.lastCall = "stop"
    /\ PendingCalls = 0
    /\ lifecycle.lifecycleState = INACTIVE
    /\ lifecycle.stopInternalCalled = 1

\* the phase changes a lifecycle manager may make
PhaseMoves ==
    {<<INACTIVE, STARTING>>, <<STARTING, OPERATIONAL>>,
     <<OPERATIONAL, STOPPING>>, <<STOPPING, INACTIVE>>,
     <<STARTING, UNRECOVERABLE>>, <<STOPPING, UNRECOVERABLE>>}

\* the phases the manager goes through in a step, the one it leaves first
PhasesOfStep == <<lifecycle.lifecycleState>> \o lifecycle'.path

\* C21: every change of phase a manager makes is INACTIVE to STARTING, STARTING
\* to OPERATIONAL, OPERATIONAL to STOPPING, STOPPING to INACTIVE, or a move to
\* UNRECOVERABLE; and it moves to UNRECOVERABLE only in the step in which
\* startInternal or stopInternal fails
C21_PhaseMoves ==
    [][/\ lifecycle'.lifecycleState = Last(PhasesOfStep)
       /\ \A n \in 1..Len(lifecycle'.path) :
             /\ <<PhasesOfStep[n], PhasesOfStep[n + 1]>> \in PhaseMoves
             /\ PhasesOfStep[n + 1] = UNRECOVERABLE
                   => /\ n = 1
                      /\ \/ StartInternalSettled(FALSE)
                         \/ StopInternalSettled(FALSE)]_vars

\* a manager that has been through every phase once has just completed its
\* second start and, in the same step, begun the stop that waited for it
C21_Witness ==
    /\ lifecycle.path = <<OPERATIONAL, STOPPING>>
    /\ lifecycle.startInternalCalled = 2
    /\ lifecycle.stopInternalCalled = 2

\* C22: an UNRECOVERABLE manager stays UNRECOVERABLE, and every start, stop or
\* restart it is sent fails with the unrecoverable-state error without running
\* startInternal or stopInternal
C22_UnrecoverableIsFinal ==
    [][lifecycle.lifecycleState = UNRECOVERABLE
          => /\ lifecycle'.lifecycleState = UNRECOVERABLE
             /\ lifecycle'.startInternalCalled = lifecycle.startInternalCalled
             /\ lifecycle'.stopInternalCalled = lifecycle.stopInternalCalled
             /\ lifecycle'.waiting = <<>>
             /\ lifecycle'.resolved = lifecycle.resolved
             /\ lifecycle'.rejected = lifecycle.rejected + 1
             /\ lifecycle'.errors =
                   [lifecycle.errors EXCEPT !["unrecoverable"] = @ + 1]]_vars

\* a manager whose stopInternal failed has since refused two calls, the
\* latest a restart
C22_Witness ==
    /\ lifecycle.lifecycleState = UNRECOVERABLE
    /\ lifecycle.stopInternalCalled = 1
    /\ lifecycle.errors["unrecoverable"] = 2
    /\ lifecycle.lastCall = "restart"

\* C23: a start with a configuration other than the one a STARTING or
\* OPERATIONAL manager holds fails, with the 'busy' error while STARTING and the
\* 'running' error while OPERATIONAL, and leaves the phase, the configuration,
\* the start in progress and the calls waiting for it as they were, without
\* running startInternal
C23_NewConfigRefused ==
    [][\A config \in Configs :
          ( /\ CallStart(config)
            /\ lifecycle.lifecycleState \in {STARTING, OPERATIONAL}
            /\ config # lifecycle.config )
          => /\ lifecycle'.errors =
                   [lifecycle.errors EXCEPT
                       ![IF lifecycle.lifecycleState = STARTING
                         THEN "busy" ELSE "running"] = @ + 1]
             /\ lifecycle'.rejected = lifecycle.rejected + 1
             /\ lifecycle'.resolved = lifecycle.resolved
             /\ lifecycle'.lifecycleState = lifecycle.lifecycleState
             /\ lifecycle'.config = lifecycle.config
             /\ lifecycle'.owner = lifecycle.owner
             /\ lifecycle'.waiting = lifecycle.waiting
             /\ lifecycle'.path = <<>>
             /\ lifecycle'.startInternalCalled = lifecycle.startInternalCalled
             /\ lifecycle'.stopInternalCalled = lifecycle.stopInternalCalled]_vars

\* a manager started once with one configuration has refused a start with
\* another while it was starting and again while it was running
C23_Witness ==
    /\ lifecycle.lifecycleState = OPERATIONAL
    /\ lifecycle.startInternalCalled = 1
    /\ lifecycle.errors["busy"] = 1
    /\ lifecycle.errors["running"] = 1
    /\ lifecycle.config \in lifecycle.configs
    /\ lifecycle.lastConfig # lifecycle.config

\* the calls of the given kind among those waiting for the promise in progress
Waiting(op) == SelectSeq(lifecycle.waiting, LAMBDA w : w.op = op)

\* C29: a stop() made during a start waits, without running stopInternal, and
\* stops the manager in the step in which the start completes; a start(c) made
\* during a stop waits, without running startInternal, and starts the manager
\* with c in the step in which the stop completes, stopInternal having run once
\* for that stop; and after one start and one stop, made in that order, that
\* have both completed without failure, the manager is INACTIVE and
\* startInternal and stopInternal have run once each
C29_StartAndStopWaitForEachOther ==
    /\ [][(CallStop /\ lifecycle.lifecycleState = STARTING)
             => lifecycle' =
                   [lifecycle EXCEPT
                       !.stopCalls = @ + 1, !.lastCall = "stop",
                       !.lastConfig = None, !.path = <<>>,
                       !.waiting = Append(@, [op |-> "stop", config |-> None])]]_vars
    /\ [][(StartInternalSettled(TRUE) /\ Waiting("stop") # <<>>)
             => /\ lifecycle'.path = <<OPERATIONAL, STOPPING>>
                /\ lifecycle'.lifecycleState = STOPPING
                /\ lifecycle'.stopInternalCalled = lifecycle.stopInternalCalled + 1
                /\ lifecycle'.startInternalCalled = lifecycle.startInternalCalled]_vars
    /\ [][\A config \in Configs :
             (CallStart(config) /\ lifecycle.lifecycleState = STOPPING)
             => lifecycle' =
                   [lifecycle EXCEPT
                       !.startCalls = @ + 1, !.configs = @ \cup {config},
                       !.lastCall = "start",
                       !.lastConfig = config, !.path = <<>>,
                       !.waiting = Append(@, [op |-> "start", config |-> config])]]_vars
    /\ [][(StopInternalSettled(TRUE) /\ Waiting("start") # <<>>)
             => /\ lifecycle'.path = <<INACTIVE, STARTING>>
                /\ lifecycle'.lifecycleState = STARTING
                /\ lifecycle'.config = Waiting("start")[1].config
                /\ lifecycle'.startInternalCalled = lifecycle.startInternalCalled + 1
                /\ lifecycle'.stopInternalCalled = lifecycle.stopInternalCalled]_vars
    /\ []( ( /\ lifecycle.startCalls = 1
             /\ lifecycle.stopCalls = 1
             /\ lifecycle.restartCalls = 0
             /\ lifecycle.lastCall = "stop"
             /\ lifecycle.rejected = 0
             /\ PendingCalls = 0 )
           => /\ lifecycle.lifecycleState = INACTIVE
              /\ lifecycle.startInternalCalled = 1
              /\ lifecycle.stopInternalCalled = 1 )

\* a start that waited for the one stop of a manager has just begun the
\* manager's second start, in the step in which the stop completed
C29_Witness ==
    /\ lifecycle.path = <<INACTIVE, STARTING>>
    /\ lifecycle.restartCalls = 0
    /\ lifecycle.startCalls = 2
    /\ lifecycle.stopCalls = 1
    /\ lifecycle.startInternalCalled = 2
    /\ lifecycle.stopInternalCalled = 1

\* every call made so far has completed, and neither startInternal nor
\* stopInternal has failed
AllCompleted ==
    /\ PendingCalls = 0
    /\ lifecycle.errors["failed"] = 0
    /\ lifecycle.lifecycleState # UNRECOVERABLE

\* C30: restart(c) runs startInternal only on an INACTIVE manager: called on an
\* OPERATIONAL manager it begins a stop, called during a start or a stop it
\* waits, called on an INACTIVE manager it starts with c without stopping; no
\* restart fails with the 'busy' or the 'running' error; once a restart that
\* was the only restart and the last call has completed, all without failure
\* of startInternal or stopInternal, the manager is OPERATIONAL with the
\* configuration of that restart; and once restarts that were the only calls
\* have completed without such a failure, the manager is OPERATIONAL,
\* startInternal has run once for each restart, and stopInternal once for each
\* but the first, which found the manager INACTIVE
C30_RestartStopsThenStarts ==
    /\ [][\A config \in Configs :
             CallRestart(config)
             => CASE lifecycle.lifecycleState = INACTIVE ->
                        /\ lifecycle'.path = <<STARTING>>
                        /\ lifecycle'.config = config
                        /\ lifecycle'.startInternalCalled =
                              lifecycle.startInternalCalled + 1
                        /\ lifecycle'.stopInternalCalled = lifecycle.stopInternalCalled
                  [] lifecycle.lifecycleState = OPERATIONAL ->
                        /\ lifecycle'.path = <<STOPPING>>
                        /\ lifecycle'.stopInternalCalled =
                              lifecycle.stopInternalCalled + 1
                        /\ lifecycle'.startInternalCalled =
                              lifecycle.startInternalCalled
                  [] OTHER ->
                        /\ lifecycle'.path = <<>>
                        /\ lifecycle'.stopInternalCalled = lifecycle.stopInternalCalled
                        /\ lifecycle'.startInternalCalled =
                              lifecycle.startInternalCalled]_vars
    /\ [](lifecycle.restartErrors \subseteq {"unrecoverable", "failed"})
    /\ []( ( /\ lifecycle.restartCalls = 1
             /\ lifecycle.lastCall = "restart"
             /\ AllCompleted )
           => /\ lifecycle.lifecycleState = OPERATIONAL
              /\ lifecycle.config = lifecycle.lastConfig )
    /\ []( ( /\ lifecycle.restartCalls > 0
             /\ lifecycle.startCalls = 0
             /\ lifecycle.stopCalls = 0
             /\ AllCompleted )
           => /\ lifecycle.lifecycleState = OPERATIONAL
              /\ lifecycle.rejected = 0
              /\ lifecycle.startInternalCalled = lifecycle.restartCalls
              /\ lifecycle.stopInternalCalled = lifecycle.restartCalls - 1 )

\* four restarts, made while one another were in progress, have all completed:
\* startInternal has run four times and stopInternal three times
C30_Witness ==
    /\ lifecycle.restartCalls = 4
    /\ lifecycle.resolved = 4
    /\ lifecycle.lifecycleState = OPERATIONAL
    /\ lifecycle.startInternalCalled = 4
    /\ lifecycle.stopInternalCalled = 3
    /\ lifecycle.config # lifecycle.lastConfig

\* the loops the HealthCheckManager has created so far
Loops == healthCheckManager.loops

\* in this step loop l invokes runCheck
InvokesRunCheck(l) == healthCheckManager'.loops[l].checks > Loops[l].checks

\* C24: a loop invokes runCheck for attempt k only from a sleep that began
\* getDelayMs(k) or more before and was not cancelled, and it is its k-th
\* runCheck; a new loop begins with attempt 1 in a sleep that begins at its
\* creation, without having invoked runCheck; and a loop that was cancelled
\* invokes runCheck no more
C24_CheckOnlyAfterFullSleep ==
    /\ [][\A l \in 1..Len(Loops) :
             InvokesRunCheck(l)
             => /\ Loops[l].pos = "delay"
                /\ ~Loops[l].aborted
                /\ now >= Loops[l].since + Loops[l].getDelayMs[Loops[l].attempt]
                /\ healthCheckManager'.loops[l].checks = Loops[l].attempt
                /\ emitted' = Emit("runCheck", l, [type |-> Loops[l].type,
                                                    attempt |-> Loops[l].attempt])]_vars
    /\ [][\A l \in (Len(Loops) + 1)..Len(healthCheckManager'.loops) :
             /\ healthCheckManager'.loops[l].pos = "delay"
             /\ healthCheckManager'.loops[l].attempt = 1
             /\ healthCheckManager'.loops[l].since = now
             /\ healthCheckManager'.loops[l].checks = 0
             /\ emitted'.op # "runCheck"]_vars
    /\ [][\A l \in 1..Len(Loops) :
             Loops[l].aborted
             => /\ healthCheckManager'.loops[l].aborted
                /\ ~InvokesRunCheck(l)]_vars

\* a loop that was cancelled in its first sleep has returned without a
\* runCheck, and a later loop whose first delay is not 0 has just invoked
\* runCheck for its second attempt
C24_Witness ==
    /\ Len(Loops) = 2
    /\ Loops[1].pos = "returned"
    /\ Loops[1].checks = 0
    /\ emitted = Emit("runCheck", 2, [type |-> RECOVERY, attempt |-> 2])

\* the loops that have not returned
LiveLoops == {l \in 1..Len(Loops) : Loops[l].pos # "returned"}

\* C25: a HealthCheckManager never has more than one loop that has not
\* returned, and that loop is the one healthCheckLoop holds; a new loop is
\* created, and begins its first sleep, only in a state in which every loop
\* created before has returned, its runCheck included; so at most one runCheck
\* is in progress at any time
C25_OneLoopAtATime ==
    /\ [](Cardinality(LiveLoops) <= 1)
    /\ [](LiveLoops \subseteq {healthCheckManager.healthCheckLoop})
    /\ [](Cardinality({l \in 1..Len(Loops) : Loops[l].pos = "runCheck"}) <= 1)
    /\ [][Len(healthCheckManager'.loops) > Len(Loops)
             => /\ LiveLoops = {}
                /\ Len(healthCheckManager'.loops) = Len(Loops) + 1
                /\ lifecycle.lifecycleState \in {INACTIVE, STOPPING}
                /\ lifecycle'.lifecycleState = STARTING]_vars

\* a restart with options of another kind, made while the first loop had its
\* second runCheck in progress, has just created the second loop, in the step
\* in which the stop it waited for completed; the first loop has returned
C25_Witness ==
    /\ lifecycle.restartCalls = 1
    /\ lifecycle.stopCalls = 0
    /\ lifecycle.path = <<INACTIVE, STARTING>>
    /\ Len(Loops) = 2
    /\ Loops[1].pos = "returned"
    /\ Loops[1].checks = 2
    /\ Loops[1].attempt = 3
    /\ Loops[1].type = RECOVERY
    /\ Loops[2].type = IDLE
    /\ Loops[2].pos = "delay"

\* C26: onRoleChange is invoked with a role other than the one the instance
\* had, which then is its role, and the role of an instance changes in no
\* other way: the role an instance has is always the one it was last notified
\* of, or FOLLOWER if it has not been notified, so that two invocations in
\* succession never carry the same role and the first carries LEADER
C26_RoleChangesOnly ==
    /\ [][\A i \in Inst :
             /\ emitted' = Emit("onRoleChange", i, currentRole'[i])
                   <=> currentRole'[i] # currentRole[i]
             /\ (emitted'.op = "onRoleChange" /\ emitted'.inst = i)
                   => emitted'.arg = currentRole'[i]]_vars
    /\ [](\A i \in Inst :
             /\ currentRole[i] \in {LEADER, FOLLOWER}
             /\ (emitted.op = "onRoleChange" /\ emitted.inst = i)
                   => emitted.arg = currentRole[i])

\* a running instance that was the leader has just been told that it is a
\* follower, its lock having been lost
C26_Witness ==
    \E i \in Inst :
        /\ emitted = Emit("onRoleChange", i, FOLLOWER)
        /\ managerState[i] = OPERATIONAL
        /\ ~isAcquired[i]

\* C27: onStateChange is invoked exactly in the deliveries of the state reader
\* whose last entry has a state other than the cached one, with that state,
\* and in no other step, the initial load of start() included; and two
\* invocations in succession on one instance never carry the same state
C27_StateChangesOnly ==
    /\ [][/\ \A i \in Inst, m \in 1..Len(stateLog) :
                TailState(i, m)
                => emitted' = IF stateLog[m].state # currentState[i].state
                              THEN Emit("onStateChange", i, stateLog[m].state)
                              ELSE Quiet
          /\ emitted'.op = "onStateChange"
                => \E i \in Inst, m \in 1..Len(stateLog) : TailState(i, m)]_vars
    /\ [][emitted'.op = "onStateChange"
             => emitted'.arg # notifiedState[emitted'.inst]]_vars

\* C28: once CircuitBreaker.stop() has resolved, the instance is at rest: its
\* role is FOLLOWER, it does not hold the mutex, the scheduler has no loop, and
\* no health.check invocation begins, whatever was in flight when stop() was
\* called.
C28_StoppedMeansStopped ==
    /\ [](\A i \in Inst :
            managerState[i] = INACTIVE
                => /\ currentRole[i] = FOLLOWER
                   /\ ~isAcquired[i]
                   /\ lockHolder # i
                   /\ healthCheckLoop[i].lifecycleState = INACTIVE)
    /\ [][\A i \in Inst :
            managerState[i] = INACTIVE
                => ~(emitted'.op = "check" /\ emitted'.inst = i)]_vars

\* the setState call instance i makes in this step, if it makes one
IssuesWrite(i) == Len(stateWrites'[i]) > Len(stateWrites[i])

\* C31: every setState call has one of three causes. An OPEN entry is sent by
\* a leader whose strategy has just returned true while its cached state was
\* CLOSED, or by a leader whose Idle probe has just failed; a CLOSED entry is
\* sent by a leader whose Recovery probe has just succeeded; nothing else
\* reaches the state log. A delivery of call-result events to an instance whose
\* cached state is OPEN consults no strategy, sends nothing and leaves the
\* scheduler as it is.
C31_TransitionsHaveCauses ==
    [][/\ \A i \in Inst :
            IssuesWrite(i) =>
                /\ currentRole[i] = LEADER
                /\ stateWrites'[i] \in
                      {Append(stateWrites[i], [state |-> st, timestamp |-> now,
                                               then |-> th]) :
                          st \in {OPEN, CLOSED}, th \in {RECOVERY, IDLE}}
                /\ Last(stateWrites'[i]).state = OPEN =>
                      \/ /\ emitted'.op = "shouldOpenCircuit"
                         /\ emitted'.inst = i
                         /\ emitted'.arg.verdict
                         /\ currentState[i].state = CLOSED
                      \/ /\ CheckSettled(i, FALSE)
                         /\ healthCheckLoop[i].type = IDLE
                /\ Last(stateWrites'[i]).state = CLOSED =>
                      /\ CheckSettled(i, TRUE)
                      /\ healthCheckLoop[i].type = RECOVERY
       /\ stateLog' # stateLog =>
            \E i \in Inst :
                /\ stateWrites[i] # <<>>
                /\ stateWrites'[i] = Tail(stateWrites[i])
                /\ stateLog' = Append(stateLog,
                        [state |-> Head(stateWrites[i]).state,
                         timestamp |-> Head(stateWrites[i]).timestamp])
       /\ \A i \in Inst :
            (currentState[i].state = OPEN
                /\ \E m \in 1..Len(callLog) : TailCalls(i, m)) =>
                /\ emitted' = Quiet
                /\ stateWrites' = stateWrites
                /\ healthCheckLoop' = healthCheckLoop]_vars

\* the state log holds an OPEN entry followed by a CLOSED entry, and an
\* instance whose cached state is OPEN has been delivered a call-result event
\* stored after the circuit opened
C31_Witness ==
    /\ Len(stateLog) = 2
    /\ stateLog[1].state = OPEN
    /\ stateLog[2].state = CLOSED
    /\ \E i \in Inst :
          /\ currentState[i].state = OPEN
          /\ events[i] # <<>>
          /\ Last(events[i]).timestamp > currentState[i].timestamp

\* a probe of instance i settles with an outcome that asks for no transition:
\* a Recovery probe fails or an Idle probe succeeds
QuietOutcome(i) ==
    \/ CheckSettled(i, FALSE) /\ healthCheckLoop[i].type = RECOVERY
    \/ CheckSettled(i, TRUE) /\ healthCheckLoop[i].type = IDLE

\* C32: a failed Recovery probe and a successful Idle probe send nothing to
\* the state log and leave the log and the cached state as they were; the loop
\* that ran the probe goes on to its next attempt with the same kind, unless a
\* stop or restart had aborted it while the probe was running, in which case
\* the scheduler ends as that stop or restart decided.
C32_QuietOutcomeChangesNothing ==
    [][\A i \in Inst :
          QuietOutcome(i) =>
              LET h == healthCheckLoop[i]
              IN  /\ stateWrites' = stateWrites
                  /\ stateLog' = stateLog
                  /\ currentState' = currentState
                  /\ ~h.aborted =>
                        /\ healthCheckLoop'[i].lifecycleState = OPERATIONAL
                        /\ healthCheckLoop'[i].type = h.type
                        /\ healthCheckLoop'[i].attempt = h.attempt + 1
                        /\ healthCheckLoop'[i].pos = "sleeping"
                  /\ (h.aborted /\ h.pending = None) =>
                        healthCheckLoop'[i].lifecycleState = INACTIVE
                  /\ (h.aborted /\ h.pending # None) =>
                        /\ healthCheckLoop'[i].type = h.pending
                        /\ healthCheckLoop'[i].attempt = 1]_vars

\* the leader's first Recovery probe has failed: the only entry of the state
\* log is OPEN, nothing is in flight and the loop waits for attempt 2
C32_Witness ==
    \E i \in Inst :
        /\ currentRole[i] = LEADER
        /\ healthCheckLoop[i].type = RECOVERY
        /\ healthCheckLoop[i].attempt = 2
        /\ healthCheckLoop[i].pos = "sleeping"
        /\ stateWrites[i] = <<>>
        /\ Len(stateLog) = 1
        /\ currentState[i].state = OPEN

\* C33: when health.check throws after the probe's signal was aborted, runCheck
\* hands nothing to handleError or to the metrics sink, no setState call is
\* made, and the scheduler ends as the stop or restart that aborted the loop
\* decided: no loop when only a stop was requested, the loop of the waiting
\* restart otherwise.
C33_AbortedFailureSuppressed ==
    [][\A i \in Inst :
          (CheckSettled(i, FALSE) /\ healthCheckLoop[i].aborted) =>
              /\ emitted' = Quiet
              /\ stateWrites' = stateWrites
              /\ stateLog' = stateLog
              /\ healthCheckLoop[i].pending = None =>
                    healthCheckLoop'[i].lifecycleState = INACTIVE
              /\ healthCheckLoop[i].pending # None =>
                    /\ healthCheckLoop'[i].type = healthCheckLoop[i].pending
                    /\ healthCheckLoop'[i].attempt = 1]_vars

\* the Idle probe of a leader is running and its signal has been aborted by a
\* stop of the scheduler
C33_Witness ==
    \E i \in Inst :
        /\ healthCheckLoop[i].pos = "checking"
        /\ healthCheckLoop[i].aborted
        /\ healthCheckLoop[i].type = IDLE
        /\ currentRole[i] = LEADER
        /\ ENABLED CheckSettled(i, FALSE)

\* the later of two instants
Later(a, b) == IF a > b THEN a ELSE b

\* after this step instance i has an Idle loop in its first sleep
FreshIdleLoop(i) ==
    /\ healthCheckLoop'[i].lifecycleState = OPERATIONAL
    /\ healthCheckLoop'[i].type = IDLE
    /\ healthCheckLoop'[i].attempt = 1
    /\ healthCheckLoop'[i].pos = "sleeping"

\* this step gave instance i a new Idle loop
NewIdleLoop(i) ==
    /\ healthCheckLoop'[i] # healthCheckLoop[i]
    /\ FreshIdleLoop(i)

\* the first sleep of every new Idle loop ends at the later of now and
\* (timestamp of the newest event of the window when the restart was called)
\* + idleProbeIntervalMs, at once when the window was empty; every later sleep
\* lasts idleProbeIntervalMs
IdleDelays ==
    [][\A i \in Inst :
          LET h == healthCheckLoop[i]
              settles == \E ok \in BOOLEAN : CheckSettled(i, ok)
          IN  /\ (NewIdleLoop(i) /\ ~settles) =>
                    healthCheckLoop'[i].until =
                        IF events'[i] = <<>> THEN now
                        ELSE Later(now, Last(events'[i]).timestamp
                                            + idleProbeIntervalMs)
              /\ (NewIdleLoop(i) /\ settles) =>
                    healthCheckLoop'[i].until =
                        IF h.pendingStartMs = 0 THEN now
                        ELSE Later(now, h.pendingStartMs)
              /\ (settles /\ ~h.aborted /\ h.type = IDLE) =>
                    healthCheckLoop'[i].until = now + idleProbeIntervalMs]_vars

\* a batch of call results delivered to a leader whose cached state is CLOSED
\* and whose strategy does not open the circuit restarts the Idle loop
BatchRestartsIdle ==
    [][\A i \in Inst :
          ( /\ \E m \in 1..Len(callLog) : TailCalls(i, m)
            /\ Evaluates(i)
            /\ stateWrites' = stateWrites ) =>
              \/ /\ FreshIdleLoop(i)
                 /\ healthCheckLoop'[i].until =
                        Later(now, Last(events'[i]).timestamp
                                       + idleProbeIntervalMs)
              \/ /\ healthCheckLoop'[i].lifecycleState = STOPPING
                 /\ healthCheckLoop'[i].pending = IDLE]_vars

\* an Idle probe is invoked only when the newest event of the window is at
\* least idleProbeIntervalMs old
IdleProbeAfterQuietInterval ==
    [][\A i \in Inst :
          (CheckBegin(i) /\ healthCheckLoop[i].type = IDLE /\ events[i] # <<>>)
              => now >= Last(events[i]).timestamp + idleProbeIntervalMs]_vars

\* C34: the first delay of an Idle loop is max(0, newest event's timestamp +
\* idleProbeIntervalMs - now), 0 with an empty window, and every later delay is
\* idleProbeIntervalMs; a batch that does not open the circuit restarts the
\* Idle loop on the leader; and no Idle probe is invoked sooner than
\* idleProbeIntervalMs after the newest call-result event of the leader's window.
C34_IdleProbesWaitForQuiet ==
    /\ IdleDelays
    /\ BatchRestartsIdle
    /\ IdleProbeAfterQuietInterval

\* the runCheck invocations of a loop that have completed
Completed(loop) == IF loop.pos = "runCheck" THEN loop.checks - 1 ELSE loop.checks

ReaderLoops == 1..Len(reader.loops)

\* in this step a read of loop l fails
ReadFailsIn(l) == reader'.loops[l].errors > reader.loops[l].errors

\* C36: a read that fails while the signal is not aborted is reported to
\* onError once and leaves the loop in the pause before its next read, which
\* begins ERROR_RETRY_DELAY_MS later at the earliest, or the loop returns if
\* the reader is stopped meanwhile; a read that fails after the signal was
\* aborted is not reported and the loop returns; a loop returns only after its
\* signal was aborted; onEntries gets non-empty batches only, and none once
\* stop() has resolved (the reader is INACTIVE).
C36_ReadErrorsAreSurvived ==
    /\ [][\A l \in ReaderLoops :
            LET loop == reader.loops[l]
                after == reader'.loops[l]
            IN  /\ (ReadFailsIn(l) /\ ~loop.aborted) =>
                      /\ emitted' = Emit("onError", l, "xread")
                      /\ after.pos = "delay"
                      /\ after.errors = loop.errors + 1
                /\ (ReadFailsIn(l) /\ loop.aborted) =>
                      /\ emitted' = Quiet
                      /\ after.pos = "returned"
                /\ (loop.pos = "delay" /\ after.pos = "xread") =>
                      /\ ~loop.aborted
                      /\ now >= loop.until
                /\ (loop.pos = "delay" /\ after.pos # "delay") =>
                      after.pos = IF loop.aborted THEN "returned" ELSE "xread"
                /\ (loop.pos # "returned" /\ after.pos = "returned") =>
                      loop.aborted]_vars
    /\ [][emitted'.op = "onError" =>
            \E l \in ReaderLoops : ReadFailsIn(l) /\ emitted'.inst = l]_vars
    /\ [][emitted'.op = "onEntries" =>
            /\ emitted'.arg.last >= emitted'.arg.first
            /\ lifecycle.lifecycleState \in {OPERATIONAL, STOPPING}
            /\ lifecycle'.lifecycleState \in {OPERATIONAL, STOPPING}]_vars
    /\ [](lifecycle.lifecycleState = INACTIVE =>
            \A l \in ReaderLoops : reader.loops[l].pos = "returned")

\* a loop whose read failed has paused, read again and handed entries to
\* onEntries; the reader has then been stopped and its stop has resolved
C36_Witness ==
    /\ lifecycle.lifecycleState = INACTIVE
    /\ lifecycle.stopInternalCalled = 1
    /\ \E l \in ReaderLoops :
          /\ reader.loops[l].errors = 1
          /\ reader.loops[l].from > 0
          /\ reader.loops[l].pos = "returned"
    /\ reader.lastId = ReaderEntries

\* C37: when the mutex reports lock lost to an operational elector, the role
\* becomes FOLLOWER and onRoleChange(FOLLOWER) fires once, in that step; the
\* elector stays operational with its acquire loop running, its mutex object
\* no longer acquired and the key no longer held in its name; and an
\* operational follower eventually is LEADER whenever the key is free, unless
\* it is stopped or another elector takes the key first
C37_LockLostReverts ==
    /\ [][\A i \in Inst :
             LockLost(i) =>
                 /\ currentRole[i] = LEADER
                 /\ currentRole'[i] = FOLLOWER
                 /\ emitted' = Emit("onRoleChange", i, FOLLOWER)
                 /\ Operational(i)'
                 /\ ~isAcquired'[i]
                 /\ lockHolder' # i]_vars
    /\ [][\A i \in Inst :
             (emitted' = Emit("onRoleChange", i, FOLLOWER) /\ Operational(i)') =>
                 LockLost(i)]_vars
    /\ \A i \in Inst :
          (Operational(i) /\ currentRole[i] = FOLLOWER /\ lockHolder = None)
              ~> (currentRole[i] = LEADER \/ ~Operational(i) \/ lockHolder # None)

\* an operational elector has just lost the lock: it reported FOLLOWER, it is
\* still operational, the key is free and the other elector is LEADER of
\* nothing yet
C37_Witness ==
    \E i \in Inst :
        /\ emitted = Emit("onRoleChange", i, FOLLOWER)
        /\ Operational(i)
        /\ currentRole[i] = FOLLOWER
        /\ ~isAcquired[i]
        /\ lockHolder = None

\* the window of instance i is a run of consecutive entries of the call-result
\* log, oldest first, each event mapped from the entry with its id
IsRunOfLog(window) ==
    \A k \in 1..Len(window) :
        /\ window[k].id = window[1].id + k - 1
        /\ window[k].id \in 1..Len(callLog)
        /\ window[k] = mapEntryToCallResultEvent(window[k].id, callLog[window[k].id])

\* the id of the newest event of a window, 0 for an empty window
NewestId(window) == IF Len(window) = 0 THEN 0 ELSE window[Len(window)].id

\* C38: the window of a call-result store is at all times a run of at most
\* maxLen consecutive log entries in log order (no duplicate, no gap), whoever
\* appended them; a tail read delivers entries that follow the window's newest
\* event immediately and moves the cursor forward, and one is possible whenever
\* an operational store's cursor is behind the log; start loads the
\* min(maxLen, length of the log) newest entries and notifies the subscriber
\* with them exactly if there is one; nothing but start, a tail read and stop
\* changes a window
C38_WindowFollowsLog ==
    /\ [](\A i \in Inst :
            /\ IsRunOfLog(events[i])
            /\ Len(events[i]) <= maxLen
            /\ (Operational(i) /\ NewestId(events[i]) < Len(callLog))
                  => ENABLED TailCalls(i, Len(callLog)))
    /\ [][\A i \in Inst, m \in 1..Len(callLog) :
             TailCalls(i, m) =>
                 /\ Operational(i)
                 /\ m > NewestId(events[i])
                 /\ NewestId(events'[i]) = m
                 /\ Len(events'[i]) =
                       IF Len(events[i]) + m - NewestId(events[i]) > maxLen
                       THEN maxLen
                       ELSE Len(events[i]) + m - NewestId(events[i])]_vars
    /\ [][\A i \in Inst :
             Start(i) =>
                 /\ Len(events'[i]) =
                       IF Len(callLog) > maxLen THEN maxLen ELSE Len(callLog)
                 /\ NewestId(events'[i]) = Len(callLog)
                 /\ emitted' = IF Len(events'[i]) > 0
                                THEN Emit("onEventsAdded", i, events'[i])
                                ELSE Quiet]_vars
    /\ [][\A i \in Inst :
             events'[i] # events[i] =>
                 \/ Start(i)
                 \/ Stop(i)
                 \/ \E m \in 1..Len(callLog) : TailCalls(i, m)]_vars

\* both stores hold the three newest of four entries that the two instances
\* appended: one has just loaded them on start and notified its subscriber,
\* the other, operational too, holds the same window
C38_Witness ==
    \E i, j \in Inst :
        /\ i # j
        /\ Len(callLog) = StoreCalls
        /\ Operational(i) /\ Operational(j)
        /\ emitted = Emit("onEventsAdded", i, events[i])
        /\ Len(events[i]) = maxLen
        /\ events[j] = events[i]
        /\ events[i][1].id = StoreCalls - maxLen + 1

\* an execution of startInternal, or of stopInternal, is in progress: its
\* promise is the startPromise, or the stopPromise, of the manager's state
StartInternalRuns == lifecycle.lifecycleState = STARTING
StopInternalRuns == lifecycle.lifecycleState = STOPPING

\* C39: on one lifecycle manager called with start, stop and restart in any
\* order, startInternal begins only when no execution is in progress or in the
\* step in which stopInternal resolves, and stopInternal only when startInternal
\* has resolved and no execution is in progress or in the step in which it
\* resolves; one step begins at most one execution; the executions begun
\* alternate, startInternal first; and after a rejection none begins
C39_InternalsAlternate ==
    /\ [][lifecycle'.startInternalCalled # lifecycle.startInternalCalled =>
            /\ lifecycle'.startInternalCalled = lifecycle.startInternalCalled + 1
            /\ lifecycle'.stopInternalCalled = lifecycle.stopInternalCalled
            /\ lifecycle.stopInternalCalled = lifecycle.startInternalCalled
            /\ \/ lifecycle.lifecycleState = INACTIVE
               \/ StopInternalRuns /\ StopInternalSettled(TRUE)
            /\ StartInternalRuns']_vars
    /\ [][lifecycle'.stopInternalCalled # lifecycle.stopInternalCalled =>
            /\ lifecycle'.stopInternalCalled = lifecycle.stopInternalCalled + 1
            /\ lifecycle'.startInternalCalled = lifecycle.startInternalCalled
            /\ lifecycle.startInternalCalled = lifecycle.stopInternalCalled + 1
            /\ \/ lifecycle.lifecycleState = OPERATIONAL
               \/ StartInternalRuns /\ StartInternalSettled(TRUE)
            /\ StopInternalRuns']_vars
    /\ [][( (StartInternalRuns /\ ~StartInternalRuns')
            \/ (StopInternalRuns /\ ~StopInternalRuns') ) =>
               \E ok \in BOOLEAN : StartInternalSettled(ok) \/ StopInternalSettled(ok)]_vars
    /\ [](StartInternalRuns =>
            lifecycle.startInternalCalled = lifecycle.stopInternalCalled + 1)
    /\ [](StopInternalRuns =>
            lifecycle.startInternalCalled = lifecycle.stopInternalCalled)

\* the second execution of startInternal is in progress after one execution
\* of stopInternal, start, stop and restart having all been called
C39_Witness ==
    /\ StartInternalRuns
    /\ lifecycle.startInternalCalled = 2
    /\ lifecycle.stopInternalCalled = 1
    /\ lifecycle.startCalls > 0
    /\ lifecycle.stopCalls > 0
    /\ lifecycle.restartCalls > 0

\* the scheduler of instance i waits in stop() for its loop to exit
SchedulerStopping(i) == healthCheckLoop[i].lifecycleState = STOPPING

\* C40: provided every health check settles, a stop of the scheduler in
\* progress ends, a restart queued behind it starts its loop, and a stop of
\* the breaker in progress resolves. The scheduler waits in stop() only for a
\* check that is running on an aborted loop; that check can settle whatever
\* the scheduler, the role and the writes in flight are, and the step in which
\* it settles ends runCheck and the stop: the scheduler is then INACTIVE, or
\* OPERATIONAL with the loop of the queued restart
C40_StopTerminates ==
    /\ \A i \in Inst : SchedulerStopping(i) ~> ~SchedulerStopping(i)
    /\ \A i \in Inst :
          (healthCheckLoop[i].pending # None) ~> (healthCheckLoop[i].pending = None)
    /\ \A i \in Inst : (managerState[i] = STOPPING) ~> (managerState[i] = INACTIVE)
    /\ [](\A i \in Inst :
            /\ SchedulerStopping(i) =>
                  /\ healthCheckLoop[i].pos = "checking"
                  /\ healthCheckLoop[i].aborted
            /\ healthCheckLoop[i].pending # None => SchedulerStopping(i)
            /\ healthCheckLoop[i].pos = "checking" =>
                  \E ok \in BOOLEAN : ENABLED CheckSettled(i, ok))
    /\ [][\A i \in Inst, ok \in BOOLEAN :
             CheckSettled(i, ok) =>
                 /\ healthCheckLoop'[i].pos # "checking"
                 /\ ~SchedulerStopping(i)'
                 /\ healthCheckLoop'[i].pending = None
                 /\ SchedulerStopping(i) =>
                       healthCheckLoop'[i] =
                          IF healthCheckLoop[i].pending = None THEN NoLoop
                          ELSE StartLoopAt(healthCheckLoop[i].pending,
                                           healthCheckLoop[i].pendingStartMs)]_vars

\* a breaker is being stopped and the check its scheduler was waiting for has
\* just settled: the scheduler is INACTIVE and stop() can resolve
C40_Witness ==
    \E i \in Inst :
        /\ managerState[i] = STOPPING
        /\ emitted.op = "healthCheck"
        /\ emitted.inst = i
        /\ healthCheckLoop[i] = NoLoop
        /\ ENABLED StopDone(i)

====
